---- MODULE Spec2Model ----
(***************************************************************************)
(* A model of the FinTracker dashboard (hashadar/fintracker-v1): the       *)
(* loader with its st.cache_data memo, the asset classifier, the monthly   *)
(* aggregator and the metrics engine.                                      *)
(*                                                                         *)
(* Money is kept in whole pounds (integers); a float64 result of a         *)
(* division is an exact fraction or one of the IEEE specials NaN, +inf,    *)
(* -inf.  Rounding of float64 arithmetic is not modelled.                  *)
(***************************************************************************)
EXTENDS Integers, Sequences, FiniteSets, TLC

VARIABLES
    sheet,          \* the external Google Sheets worksheet, as the loader would read it now
    cache,          \* st.cache_data: the memoized result of load_data()
    session_state,  \* st.session_state of the browser session
    run,            \* what the last script run of Home.py did and showed
    df,             \* the DataFrame handed to the function under analysis
    out,            \* the value that function returned
    car_file,       \* the car data workbook on disk, as load_car_data would read it now
    car_cache       \* st.cache_data: the memoized result of load_car_data()

vars == <<sheet, cache, session_state, run, df, out, car_file, car_cache>>

(***************************************************************************)
(* Bounds of the model.                                                    *)
(***************************************************************************)
MaxRows == 2        \* rows of a ledger handed to the metrics functions
MaxSheetRows == 3   \* data rows of a worksheet handed to the loader
MaxClassifyRows == 2 \* rows of a frame handed to the classifier alone
MaxWindow == 3      \* the largest window asked of calculate_rolling_metrics

(***************************************************************************)
(* float64 / None results.                                                 *)
(***************************************************************************)
RECURSIVE GCD(_, _)
GCD(a, b) == IF b = 0 THEN a ELSE GCD(b, a % b)

Abs(x) == IF x < 0 THEN -x ELSE x

None == [k |-> "None", n |-> 0, d |-> 1]
NaN == [k |-> "nan", n |-> 0, d |-> 1]
PosInf == [k |-> "inf", n |-> 0, d |-> 1]
NegInf == [k |-> "-inf", n |-> 0, d |-> 1]

\* the fraction a/b (b # 0) in lowest terms with a positive denominator
Frac(a, b) ==
    LET g == GCD(Abs(a), Abs(b))
        s == IF b < 0 THEN -1 ELSE 1
    IN  [k |-> "num", n |-> (s * a) \div g, d |-> (s * b) \div g]

Num(a) == [k |-> "num", n |-> a, d |-> 1]

\* numpy float64 true division a / b: no exception, IEEE specials on b = 0
Div(a, b) ==
    IF b # 0 THEN Frac(a, b)
    ELSE IF a = 0 THEN NaN
    ELSE IF a > 0 THEN PosInf
    ELSE NegInf

\* x * c for a float64 x and a constant c > 0
Scale(x, c) == IF x.k = "num" THEN Frac(x.n * c, x.d) ELSE x

IsNum(x) == x.k = "num"

\* float64 x * y
Mul(x, y) ==
    IF x.k = "nan" \/ y.k = "nan" THEN NaN
    ELSE IF IsNum(x) /\ IsNum(y) THEN Frac(x.n * y.n, x.d * y.d)
    ELSE IF (IsNum(x) /\ x.n = 0) \/ (IsNum(y) /\ y.n = 0) THEN NaN
    ELSE IF (x.k = "-inf" \/ (IsNum(x) /\ x.n < 0)) = (y.k = "-inf" \/ (IsNum(y) /\ y.n < 0))
    THEN PosInf ELSE NegInf

\* float64 x + c for a whole number c
Plus(x, c) == IF IsNum(x) THEN Frac(x.n + c * x.d, x.d) ELSE x

(***************************************************************************)
(* Timestamps and monthly periods.                                         *)
(***************************************************************************)
NaT == -1

\* Timestamp.dt.to_period('M'): the calendar month, counted in months
to_period(ts) == ts.y * 12 + (ts.m - 1)

\* Period.year
PeriodYear(p) == p \div 12

\* Period.to_timestamp(): the first day of the month
to_timestamp(p) == [y |-> p \div 12, m |-> (p % 12) + 1, d |-> 1]

\* the order of two Timestamps
TsKey(ts) == (ts.y * 12 + (ts.m - 1)) * 31 + (ts.d - 1)

(***************************************************************************)
(* Series helpers.                                                         *)
(***************************************************************************)
SetMax(S) == CHOOSE x \in S : \A y \in S : y <= x
SetMin(S) == CHOOSE x \in S : \A y \in S : x <= y

\* Series.max() / Series.min() of a Period column: NaT on an empty column
PeriodMax(S) == IF S = {} THEN NaT ELSE SetMax(S)
PeriodMin(S) == IF S = {} THEN NaT ELSE SetMin(S)

\* a cell of the Value column that holds no number: np.nan, which is also what
\* pd.to_numeric(errors='coerce') makes of a cell that is not numeric
NaNValue == -1000000

RECURSIVE SumValues(_)
\* Series.sum() of the Value column: NaN cells are skipped, 0 when nothing is left
SumValues(rows) ==
    IF rows = <<>> THEN 0
    ELSE (IF Head(rows).Value = NaNValue THEN 0 ELSE Head(rows).Value) + SumValues(Tail(rows))

Months(rows) == {to_period(rows[i].Timestamp) : i \in DOMAIN rows}

InMonth(rows, p) == SelectSeq(rows, LAMBDA r : to_period(r.Timestamp) = p)

OfType(rows, t) == SelectSeq(rows, LAMBDA r : r.Asset_Type = t)

Column(rows, c) == {rows[i][c] : i \in DOMAIN rows}

(***************************************************************************)
(* The asset classifier (utils/etl/asset_classifier.py).                   *)
(*                                                                         *)
(* A name is a TLA+ string; Spell gives its characters, which is what the  *)
(* substring and regular-expression tests of the classifier read.          *)
(***************************************************************************)
NA == "<NA>"    \* a missing (NaN) Platform or Asset cell

ASSET_TYPES ==
    ("CASH" :> "Cash") @@ ("INVESTMENTS" :> "Investments") @@ ("PENSIONS" :> "Pensions")
    @@ ("PROPERTY" :> "Property") @@ ("VEHICLES" :> "Vehicles") @@ ("OTHER" :> "Other")

CASH_exact_matches ==
    <<
        <<"G", "B", "P">>,
        <<"U", "S", "D">>,
        <<"E", "U", "R">>,
        <<"C", "a", "s", "h">>,
        <<"C", "u", "r", "r", "e", "n", "t", " ", "A", "c", "c", "o", "u", "n", "t">>,
        <<"S", "a", "v", "i", "n", "g", "s", " ", "A", "c", "c", "o", "u", "n", "t">>,
        <<"C", "h", "e", "c", "k", "i", "n", "g", " ", "A", "c", "c", "o", "u", "n", "t">>,
        <<"M", "o", "n", "e", "y", " ", "M", "a", "r", "k", "e", "t">>,
        <<"L", "i", "q", "u", "i", "d">>,
        <<"I", "n", "s", "t", "a", "n", "t", " ", "A", "c", "c", "e", "s", "s">>,
        <<"G", "B", "P", " ", "C", "a", "s", "h">>,
        <<"U", "S", "D", " ", "C", "a", "s", "h">>,
        <<"E", "U", "R", " ", "C", "a", "s", "h">>,
        <<"P", "o", "u", "n", "d", " ", "S", "t", "e", "r", "l", "i", "n", "g">>,
        <<"D", "o", "l", "l", "a", "r">>,
        <<"E", "u", "r", "o">> >>

CASH_patterns ==
    <<
        << <<"c", "a", "s", "h">>, <<"c", "u", "r", "r", "e", "n", "c", "y">>, <<"m", "o", "n", "e", "y">>, <<"b", "a", "n", "k">>, <<"a", "c", "c", "o", "u", "n", "t">>, <<"s", "a", "v", "i", "n", "g", "s">>, <<"c", "h", "e", "c", "k", "i", "n", "g">>, <<"l", "i", "q", "u", "i", "d">> >>,
        << <<"g", "b", "p">>, <<"u", "s", "d">>, <<"e", "u", "r">>, <<"p", "o", "u", "n", "d">>, <<"d", "o", "l", "l", "a", "r">>, <<"e", "u", "r", "o">> >>,
        << <<"c", "u", "r", "r", "e", "n", "t">>, <<"i", "n", "s", "t", "a", "n", "t", " ", "a", "c", "c", "e", "s", "s">>, <<"m", "o", "n", "e", "y", " ", "m", "a", "r", "k", "e", "t">> >> >>

CASH_platforms ==
    {"HSBC", "Wise", "Revolut", "Monzo", "Starling", "Barclays", "Santander"}

PENSIONS_exact_matches ==
    <<
        <<"P", "e", "n", "s", "i", "o", "n">>,
        <<"S", "I", "P", "P">>,
        <<"R", "e", "t", "i", "r", "e", "m", "e", "n", "t">>,
        <<"4", "0", "1", "k">>,
        <<"I", "R", "A">>,
        <<"R", "o", "t", "h", " ", "I", "R", "A">>,
        <<"W", "o", "r", "k", "p", "l", "a", "c", "e", " ", "P", "e", "n", "s", "i", "o", "n">>,
        <<"P", "e", "r", "s", "o", "n", "a", "l", " ", "P", "e", "n", "s", "i", "o", "n">>,
        <<"D", "e", "f", "i", "n", "e", "d", " ", "B", "e", "n", "e", "f", "i", "t">>,
        <<"D", "e", "f", "i", "n", "e", "d", " ", "C", "o", "n", "t", "r", "i", "b", "u", "t", "i", "o", "n">>,
        <<"A", "n", "n", "u", "i", "t", "y">>,
        <<"N", "E", "S", "T">>,
        <<"A", "u", "t", "o", " ", "E", "n", "r", "o", "l", "m", "e", "n", "t">> >>

PENSIONS_patterns ==
    <<
        << <<"p", "e", "n", "s", "i", "o", "n">>, <<"r", "e", "t", "i", "r", "e", "m", "e", "n", "t">>, <<"s", "i", "p">>, <<"4", "0", "1", "k">>, <<"i", "r", "a">>, <<"a", "n", "n", "u", "i", "t", "y">> >>,
        << <<"d", "e", "f", "i", "n", "e", "d", " ", "b", "e", "n", "e", "f", "i", "t">>, <<"d", "e", "f", "i", "n", "e", "d", " ", "c", "o", "n", "t", "r", "i", "b", "u", "t", "i", "o", "n">>, <<"w", "o", "r", "k", "p", "l", "a", "c", "e", " ", "p", "e", "n", "s", "i", "o", "n">> >>,
        << <<"n", "e", "s", "t">>, <<"a", "u", "t", "o", " ", "e", "n", "r", "o", "l", "m", "e", "n", "t">>, <<"e", "m", "p", "l", "o", "y", "e", "r", " ", "p", "e", "n", "s", "i", "o", "n">> >> >>

PENSIONS_platforms ==
    {"Wahed", "Standard Life", "Aviva", "Scottish Widows", "Legal & General", "NEST"}

INVESTMENTS_exact_matches ==
    <<
        <<"S", "t", "o", "c", "k">>,
        <<"E", "T", "F">>,
        <<"M", "u", "t", "u", "a", "l", " ", "F", "u", "n", "d">>,
        <<"B", "o", "n", "d">>,
        <<"C", "r", "y", "p", "t", "o">>,
        <<"B", "i", "t", "c", "o", "i", "n">>,
        <<"E", "t", "h", "e", "r", "e", "u", "m">>,
        <<"I", "n", "d", "e", "x", " ", "F", "u", "n", "d">>,
        <<"E", "q", "u", "i", "t", "y">>,
        <<"S", "h", "a", "r", "e", "s">>,
        <<"C", "o", "m", "m", "o", "d", "i", "t", "y">>,
        <<"R", "e", "a", "l", " ", "E", "s", "t", "a", "t", "e">>,
        <<"P", "r", "o", "p", "e", "r", "t", "y">>,
        <<"G", "o", "l", "d">>,
        <<"S", "i", "l", "v", "e", "r">>,
        <<"O", "i", "l">>,
        <<"G", "a", "s">>,
        <<"R", "E", "I", "T">>,
        <<"I", "n", "v", "e", "s", "t", "m", "e", "n", "t", " ", "T", "r", "u", "s", "t">>,
        <<"F", "u", "n", "d">>,
        <<"B", "T", "C">>,
        <<"E", "T", "H">>,
        <<"A", "D", "A">>,
        <<"D", "O", "T">>,
        <<"S", "O", "L">>,
        <<"B", "N", "B">>,
        <<"U", "S", "D", "T">>,
        <<"U", "S", "D", "C">> >>

INVESTMENTS_patterns ==
    <<
        << <<"s", "t", "o", "c", "k">>, <<"e", "t", "f">>, <<"f", "u", "n", "d">>, <<"b", "o", "n", "d">>, <<"c", "r", "y", "p", "t", "o">>, <<"b", "i", "t", "c", "o", "i", "n">>, <<"e", "t", "h", "e", "r", "e", "u", "m">>, <<"i", "n", "d", "e", "x">>, <<"e", "q", "u", "i", "t", "y">>, <<"s", "h", "a", "r", "e">> >>,
        << <<"c", "o", "m", "m", "o", "d", "i", "t", "y">>, <<"r", "e", "a", "l", " ", "e", "s", "t", "a", "t", "e">>, <<"p", "r", "o", "p", "e", "r", "t", "y">>, <<"g", "o", "l", "d">>, <<"s", "i", "l", "v", "e", "r">>, <<"o", "i", "l">>, <<"g", "a", "s">>, <<"r", "e", "i", "t">> >>,
        << <<"i", "n", "v", "e", "s", "t", "m", "e", "n", "t">>, <<"t", "r", "a", "d", "i", "n", "g">>, <<"p", "o", "r", "t", "f", "o", "l", "i", "o">>, <<"a", "s", "s", "e", "t">>, <<"s", "e", "c", "u", "r", "i", "t", "y">> >>,
        << <<"b", "t", "c">>, <<"e", "t", "h">>, <<"a", "d", "a">>, <<"d", "o", "t">>, <<"s", "o", "l">>, <<"b", "n", "b">>, <<"u", "s", "d", "t">>, <<"u", "s", "d", "c">> >> >>

INVESTMENTS_platforms ==
    {"Coinbase", "IBKR", "Trading212", "Vanguard", "Fidelity", "Hargreaves Lansdown", "AJ Bell"}

crypto_patterns ==
    << << <<"b", "t", "c">>, <<"e", "t", "h">>, <<"a", "d", "a">>, <<"d", "o", "t">>, <<"s", "o", "l">>, <<"b", "n", "b">>, <<"u", "s", "d", "t">>, <<"u", "s", "d", "c">> >> >>

stock_patterns ==
    << << <<"i", "n", "c">>, <<"c", "o", "r", "p">>, <<"l", "t", "d">>, <<"p", "l", "c">>, <<"c", "o">>, <<"c", "o", "m", "p", "a", "n", "y">>, <<"s", "t", "o", "c", "k">>, <<"s", "h", "a", "r", "e", "s">> >> >>

currency_patterns ==
    << << <<"g", "b", "p">>, <<"u", "s", "d">>, <<"e", "u", "r">>, <<"g", "b", "p">>, <<"p", "o", "u", "n", "d">>, <<"d", "o", "l", "l", "a", "r">>, <<"e", "u", "r", "o">> >> >>

Spell ==
    ("BTC" :> <<"B", "T", "C">>)
    @@ ("GBP" :> <<"G", "B", "P">>)
    @@ ("Savings Account" :> <<"S", "a", "v", "i", "n", "g", "s", " ", "A", "c", "c", "o", "u", "n", "t">>)
    @@ ("Wahed SIPP" :> <<"W", "a", "h", "e", "d", " ", "S", "I", "P", "P">>)
    @@ ("SL Pension" :> <<"S", "L", " ", "P", "e", "n", "s", "i", "o", "n">>)
    @@ ("IBKR Total Portfolio" :> <<"I", "B", "K", "R", " ", "T", "o", "t", "a", "l", " ", "P", "o", "r", "t", "f", "o", "l", "i", "o">>)
    @@ ("ON BNS SAVER" :> <<"O", "N", " ", "B", "N", "S", " ", "S", "A", "V", "E", "R">>)
    @@ ("Porsche Taycan 4S" :> <<"P", "o", "r", "s", "c", "h", "e", " ", "T", "a", "y", "c", "a", "n", " ", "4", "S">>)
    @@ ("Acme Ltd" :> <<"A", "c", "m", "e", " ", "L", "t", "d">>)
    @@ ("Gold Sovereign" :> <<"G", "o", "l", "d", " ", "S", "o", "v", "e", "r", "e", "i", "g", "n">>)
    @@ ("Pension Cash" :> <<"P", "e", "n", "s", "i", "o", "n", " ", "C", "a", "s", "h">>)
    @@ ("USD Bond Fund" :> <<"U", "S", "D", " ", "B", "o", "n", "d", " ", "F", "u", "n", "d">>)
    @@ ("Pension Shares" :> <<"P", "e", "n", "s", "i", "o", "n", " ", "S", "h", "a", "r", "e", "s">>)
    @@ ("Solar Panels" :> <<"S", "o", "l", "a", "r", " ", "P", "a", "n", "e", "l", "s">>)


UpperCase == <<"A", "B", "C", "D", "E", "F", "G", "H", "I", "J", "K", "L", "M",
               "N", "O", "P", "Q", "R", "S", "T", "U", "V", "W", "X", "Y", "Z">>
LowerCase == <<"a", "b", "c", "d", "e", "f", "g", "h", "i", "j", "k", "l", "m",
               "n", "o", "p", "q", "r", "s", "t", "u", "v", "w", "x", "y", "z">>
Digits == {"0", "1", "2", "3", "4", "5", "6", "7", "8", "9"}

\* case=False: both sides are compared in lower case
LowerChar(c) ==
    IF \E i \in 1..26 : UpperCase[i] = c
    THEN LowerCase[CHOOSE i \in 1..26 : UpperCase[i] = c]
    ELSE c

Lower(s) == [i \in 1..Len(s) |-> LowerChar(s[i])]

\* \w of the regular expressions
IsWordChar(c) == \/ \E i \in 1..26 : c = UpperCase[i] \/ c = LowerCase[i]
                 \/ c \in Digits
                 \/ c = "_"

\* w occurs in s at position i
OccursAt(s, w, i) ==
    /\ i + Len(w) - 1 <= Len(s)
    /\ \A j \in 1..Len(w) : s[i + j - 1] = w[j]

\* Series.str.contains(w, case=False) for a literal w: a substring test
str_contains(s, w) ==
    LET ls == Lower(s)
        lw == Lower(w)
    IN  \E i \in 1..Len(s) : OccursAt(ls, lw, i)

\* re.search(r'\b(w)\b', s, IGNORECASE): w as a whole word of s
word_contains(s, w) ==
    LET ls == Lower(s)
        lw == Lower(w)
    IN
    \E i \in 1..Len(s) :
        /\ OccursAt(ls, lw, i)
        /\ (i = 1 \/ ~IsWordChar(s[i - 1]))
        /\ (i + Len(w) - 1 = Len(s) \/ ~IsWordChar(s[i + Len(w)]))

\* Series.str.contains(pattern, case=False, regex=True) for r'\b(a|b|...)\b'
pattern_contains(s, alternatives) ==
    \E k \in 1..Len(alternatives) : word_contains(s, alternatives[k])

\* get_asset_classification_rules(): the dict, in its insertion order
get_asset_classification_rules ==
    << [asset_type |-> ASSET_TYPES["CASH"], exact_matches |-> CASH_exact_matches,
        patterns |-> CASH_patterns, platforms |-> CASH_platforms],
       [asset_type |-> ASSET_TYPES["PENSIONS"], exact_matches |-> PENSIONS_exact_matches,
        patterns |-> PENSIONS_patterns, platforms |-> PENSIONS_platforms],
       [asset_type |-> ASSET_TYPES["INVESTMENTS"], exact_matches |-> INVESTMENTS_exact_matches,
        patterns |-> INVESTMENTS_patterns, platforms |-> INVESTMENTS_platforms] >>

\* one rule set's exact_matches or patterns hit the Asset name (na=False: a missing name hits nothing)
rule_hits_asset(rule, asset) ==
    /\ asset # NA
    /\ \/ \E k \in 1..Len(rule.exact_matches) : str_contains(Spell[asset], rule.exact_matches[k])
       \/ \E k \in 1..Len(rule.patterns) : pattern_contains(Spell[asset], rule.patterns[k])

special_hits_asset(patterns, asset) ==
    /\ asset # NA
    /\ \E k \in 1..Len(patterns) : pattern_contains(Spell[asset], patterns[k])

RECURSIVE asset_pass(_, _, _)
\* the first loop over the rules: every hit overwrites Asset_Type, so the last hit stays
asset_pass(rules, asset, current) ==
    IF rules = <<>> THEN current
    ELSE asset_pass(Tail(rules), asset,
                    IF rule_hits_asset(Head(rules), asset) THEN Head(rules).asset_type
                    ELSE current)

RECURSIVE platform_pass(_, _, _, _)
\* the second loop: only rows the first loop left at Other, by the platforms lists
platform_pass(rules, platform, unclassified, current) ==
    IF rules = <<>> THEN current
    ELSE platform_pass(Tail(rules), platform, unclassified,
                       IF unclassified /\ platform \in Head(rules).platforms
                       THEN Head(rules).asset_type
                       ELSE current)

\* a classifier that looks the Platform up first and the Asset name only after it
classify_row_platform_first(asset, platform) ==
    LET rules == get_asset_classification_rules
        t1 == platform_pass(rules, platform, TRUE, ASSET_TYPES["OTHER"])
    IN  IF t1 # ASSET_TYPES["OTHER"] THEN t1
        ELSE asset_pass(rules, asset, t1)

\* a classifier that does not initialise the Asset_Type column to Other
classify_row_no_default(asset, platform) ==
    LET rules == get_asset_classification_rules
        t1 == asset_pass(rules, asset, NA)
    IN  platform_pass(rules, platform, t1 = NA, t1)

\* a classifier that applies the special patterns before the rule sets instead of after
classify_row_specials_first(asset, platform) ==
    LET rules == get_asset_classification_rules
        t0 == ASSET_TYPES["OTHER"]
        t1 == IF special_hits_asset(crypto_patterns, asset) THEN ASSET_TYPES["INVESTMENTS"] ELSE t0
        t2 == IF special_hits_asset(stock_patterns, asset) THEN ASSET_TYPES["INVESTMENTS"] ELSE t1
        t3 == IF special_hits_asset(currency_patterns, asset) THEN ASSET_TYPES["CASH"] ELSE t2
        t4 == asset_pass(rules, asset, t3)
    IN  platform_pass(rules, platform, t4 = ASSET_TYPES["OTHER"], t4)

\* the Asset_Type classify_asset_types leaves on a row with this Asset and Platform
classify_row(asset, platform) ==
    LET rules == get_asset_classification_rules
        t0 == ASSET_TYPES["OTHER"]
        t1 == asset_pass(rules, asset, t0)
        t2 == platform_pass(rules, platform, t1 = ASSET_TYPES["OTHER"], t1)
        t3 == IF special_hits_asset(crypto_patterns, asset) THEN ASSET_TYPES["INVESTMENTS"] ELSE t2
        t4 == IF special_hits_asset(stock_patterns, asset) THEN ASSET_TYPES["INVESTMENTS"] ELSE t3
        t5 == IF special_hits_asset(currency_patterns, asset) THEN ASSET_TYPES["CASH"] ELSE t4
    IN  t5


\* the Asset and Platform names of the model
AssetNameSeq == <<"BTC", "GBP", "Savings Account", "Wahed SIPP", "SL Pension",
                  "IBKR Total Portfolio", "ON BNS SAVER", "Porsche Taycan 4S",
                  "Acme Ltd", "Gold Sovereign", "Pension Cash", "USD Bond Fund",
                  "Pension Shares", "Solar Panels", NA>>
PlatformNameSeq == <<"HSBC", "Wise", "Coinbase", "IBKR", "Wahed", "MotoNovo", NA, "">>

AssetNames == {AssetNameSeq[i] : i \in 1..Len(AssetNameSeq)}
PlatformNames == {PlatformNameSeq[i] : i \in 1..Len(PlatformNameSeq)}

\* every (Asset, Platform) pair of the model, classified once
classify_table == [a \in AssetNames, p \in PlatformNames |-> classify_row(a, p)] @@ <<>>

\* classify_asset_types(df): a copy of df with the Asset_Type column set
classify_asset_types(frame) ==
    [i \in 1..Len(frame) |->
        [c \in DOMAIN frame[i] \cup {"Asset_Type"} |->
            IF c = "Asset_Type"
            THEN classify_table[frame[i].Asset, frame[i].Platform]
            ELSE frame[i][c]]]

\* utils/constants.py ASSET_TYPES: the platform lists of the first loader
constants_ASSET_TYPES ==
    << [asset_type |-> "Pensions", platforms |-> {"Wahed", "Standard Life"}],
       [asset_type |-> "Investments", platforms |-> {"Coinbase", "IBKR"}],
       [asset_type |-> "Cash", platforms |-> {"HSBC", "Wise"}] >>

\* next((k for k, v in ASSET_TYPES.items() if x in v), 'Other')
platform_asset_type(x) ==
    IF \E i \in 1..Len(constants_ASSET_TYPES) : x \in constants_ASSET_TYPES[i].platforms
    THEN constants_ASSET_TYPES[
            CHOOSE i \in 1..Len(constants_ASSET_TYPES) :
                /\ x \in constants_ASSET_TYPES[i].platforms
                /\ \A j \in 1..(i - 1) : x \notin constants_ASSET_TYPES[j].platforms].asset_type
    ELSE "Other"

(***************************************************************************)
(* The classifier applied to a frame of unclassified rows.                 *)
(***************************************************************************)
NoOut == [op |-> "none"]

Jan15 == [y |-> 2024, m |-> 1, d |-> 15]

\* the k-th (Asset, Platform) pair, k in 1..NClassifyRows
NClassifyRows == Len(AssetNameSeq) * Len(PlatformNameSeq)

ClassifyRow(k) ==
    [Platform |-> PlatformNameSeq[((k - 1) % Len(PlatformNameSeq)) + 1],
     Asset |-> AssetNameSeq[((k - 1) \div Len(PlatformNameSeq)) + 1],
     Value |-> 100, Timestamp |-> Jan15]

\* frames of up to n rows, each set of rows in one row order:
\* f lists the rows' numbers in non-decreasing order, 0 standing for no row
ClassifyFrames(n) ==
    {LET rows == SelectSeq(f, LAMBDA k : k # 0)
     IN  [i \in 1..Len(rows) |-> ClassifyRow(rows[i])] :
        f \in {g \in [1..n -> 0..NClassifyRows] :
                    \A i \in 1..(n - 1) : g[i] <= g[i + 1]}}

InitClassify ==
    /\ df \in ClassifyFrames(MaxClassifyRows)
    /\ out = NoOut
    /\ sheet = <<>>
    /\ cache = NoOut
    /\ session_state = NoOut
    /\ run = NoOut
    /\ car_file = "absent"
    /\ car_cache = NoOut

Classify ==
    /\ out.op = "none"
    /\ out' = [op |-> "classify_asset_types", res |-> classify_asset_types(df)]
    /\ UNCHANGED <<sheet, cache, session_state, run, df, car_file, car_cache>>

\* the Asset_Type column of the first loader: by Platform alone
LegacyClassify ==
    /\ out.op = "none"
    /\ out' = [op |-> "platform_asset_type",
               res |-> [i \in 1..Len(df) |-> platform_asset_type(df[i].Platform)]]
    /\ UNCHANGED <<sheet, cache, session_state, run, df, car_file, car_cache>>

NextClassify == Classify \/ LegacyClassify

SpecClassify == InitClassify /\ [][NextClassify]_vars

\* config.py PLATFORM_TO_ASSET_TYPE
PLATFORM_TO_ASSET_TYPE ==
    ("IBKR" :> "Investments") @@ ("HSBC" :> "Cash") @@ ("Wise" :> "Cash")
    @@ ("Coinbase" :> "Investments") @@ ("Wahed" :> "Pensions")
    @@ ("Standard Life" :> "Pensions") @@ ("MotoNovo" :> "Vehicles") @@ ("Owned" :> "Vehicles")

\* the closed set of asset types
AssetTypeSet == {ASSET_TYPES[k] : k \in DOMAIN ASSET_TYPES}

Classified == out.op = "classify_asset_types"

\* some asset-name rule (a rule set's exact_matches or patterns, or a special pattern) hits the name
AssetRuleHits(a) ==
    \/ \E r \in 1..Len(get_asset_classification_rules) :
            rule_hits_asset(get_asset_classification_rules[r], a)
    \/ special_hits_asset(crypto_patterns, a)
    \/ special_hits_asset(stock_patterns, a)
    \/ special_hits_asset(currency_patterns, a)

\* AssetRuleHits of every Asset name of the model
asset_rule_hits == [a \in AssetNames |-> AssetRuleHits(a)] @@ <<>>

PlatformListed(p) ==
    \E r \in 1..Len(get_asset_classification_rules) :
        p \in get_asset_classification_rules[r].platforms

PlatformListType(p) ==
    get_asset_classification_rules[
        CHOOSE r \in 1..Len(get_asset_classification_rules) :
            p \in get_asset_classification_rules[r].platforms].asset_type

\* C4 as stated: a row whose Platform is in the platform table gets that platform's
\* asset type whatever its Asset name is.
C4_PlatformDecidesFirst ==
    Classified =>
        \A i \in 1..Len(df) :
            df[i].Platform \in DOMAIN PLATFORM_TO_ASSET_TYPE =>
                out.res[i].Asset_Type = PLATFORM_TO_ASSET_TYPE[df[i].Platform]

\* C4 amended: classify_asset_types decides by Asset name first.  Two rows with the same
\* Asset name that some asset-name rule hits get the same type whatever their Platforms;
\* the platforms lists are consulted only for a row no asset-name rule hits; and Other is
\* assigned only when neither the Asset name nor the Platform resolves.
C4_AssetDecidesFirst ==
    Classified =>
        /\ \A i, j \in 1..Len(df) :
                (df[i].Asset = df[j].Asset /\ asset_rule_hits[df[i].Asset]) =>
                    /\ out.res[i].Asset_Type = out.res[j].Asset_Type
                    /\ out.res[i].Asset_Type # ASSET_TYPES["OTHER"]
        /\ \A i \in 1..Len(df) :
                ~asset_rule_hits[df[i].Asset] =>
                    out.res[i].Asset_Type =
                        IF PlatformListed(df[i].Platform)
                        THEN PlatformListType(df[i].Platform)
                        ELSE ASSET_TYPES["OTHER"]

\* C4 witness: a crypto holding kept on a bank platform is classified by its name
C4_Witness ==
    /\ Classified
    /\ Len(df) = 2
    /\ df[1].Asset = "BTC" /\ df[1].Platform = "HSBC"
    /\ df[2].Asset = "BTC" /\ df[2].Platform = "Wahed"
    /\ out.res[1].Asset_Type = "Investments"
    /\ out.res[2].Asset_Type = "Investments"

\* C5: classification gives every row, also one whose Asset or Platform is missing or
\* matches no rule, exactly one Asset_Type, a member of the fixed set of six, never null.
C5_ClassificationTotal ==
    /\ Classified =>
        /\ Len(out.res) = Len(df)
        /\ \A i \in 1..Len(df) : out.res[i].Asset_Type \in AssetTypeSet
    /\ out.op = "platform_asset_type" =>
        /\ Len(out.res) = Len(df)
        /\ \A i \in 1..Len(df) : out.res[i] \in AssetTypeSet

\* C5 witness: a row with neither Asset nor Platform, and one matching no rule, end as Other
C5_Witness ==
    /\ Classified
    /\ Len(df) = 2
    /\ df[1].Asset = "Porsche Taycan 4S" /\ df[1].Platform = "MotoNovo"
    /\ df[2].Asset = NA /\ df[2].Platform = NA
    /\ out.res[1].Asset_Type = "Other"
    /\ out.res[2].Asset_Type = "Other"

\* the rule sets of the three asset types
RuleOf(asset_type) ==
    get_asset_classification_rules[
        CHOOSE r \in 1..Len(get_asset_classification_rules) :
            get_asset_classification_rules[r].asset_type = asset_type]

\* the asset type the fixed rule order gives a row: the currency rule, then the stock and
\* crypto rules, then the Investments, Pensions and Cash name rules, then the Platform
PriorityType(a, p) ==
    IF special_hits_asset(currency_patterns, a) THEN "Cash"
    ELSE IF special_hits_asset(stock_patterns, a) \/ special_hits_asset(crypto_patterns, a)
    THEN "Investments"
    ELSE IF rule_hits_asset(RuleOf("Investments"), a) THEN "Investments"
    ELSE IF rule_hits_asset(RuleOf("Pensions"), a) THEN "Pensions"
    ELSE IF rule_hits_asset(RuleOf("Cash"), a) THEN "Cash"
    ELSE IF PlatformListed(p) THEN PlatformListType(p)
    ELSE "Other"

\* PriorityType of every (Asset, Platform) pair of the model
priority_table == [a \in AssetNames, p \in PlatformNames |-> PriorityType(a, p)] @@ <<>>

\* C28: an Asset name that matches rules of more than one asset type is resolved by a
\* fixed rule order that depends neither on the row order nor on the other rows: the
\* currency rule (Cash) first, then the stock and crypto rules (Investments), then the
\* Investments, Pensions and Cash name rules in that order; the Platform lookup decides
\* only the rows no Asset rule matched.
C28_FixedRuleOrder ==
    Classified =>
        \A i \in 1..Len(df) :
            out.res[i].Asset_Type = priority_table[df[i].Asset, df[i].Platform]

\* C28 witness: a bond fund in dollars on a pension platform is Cash by the currency
\* rule, and a pension's shares on a bank platform are Investments by the stock rule,
\* in both row orders
C28_Witness ==
    /\ Classified
    /\ Len(df) = 2
    /\ \E i, j \in 1..2 :
            /\ df[i].Asset = "USD Bond Fund" /\ df[i].Platform = "Wahed"
            /\ out.res[i].Asset_Type = "Cash"
            /\ rule_hits_asset(RuleOf("Investments"), df[i].Asset)
            /\ df[j].Asset = "Pension Shares" /\ df[j].Platform = "HSBC"
            /\ out.res[j].Asset_Type = "Investments"
            /\ rule_hits_asset(RuleOf("Pensions"), df[j].Asset)

\* some rule set has an exact_matches entry that the Asset name equals or contains as a
\* whole word, or a pattern of a rule set or of the special rules hits the name
WholeWordHits(a) ==
    /\ a # NA
    /\ \/ \E r \in 1..Len(get_asset_classification_rules) :
            LET rule == get_asset_classification_rules[r] IN
            \/ \E k \in 1..Len(rule.exact_matches) :
                    word_contains(Spell[a], rule.exact_matches[k])
            \/ \E k \in 1..Len(rule.patterns) : pattern_contains(Spell[a], rule.patterns[k])
       \/ special_hits_asset(crypto_patterns, a)
       \/ special_hits_asset(stock_patterns, a)
       \/ special_hits_asset(currency_patterns, a)

\* WholeWordHits of every Asset name of the model
whole_word_hits == [a \in AssetNames |-> WholeWordHits(a)]

\* C29: an exact_matches entry classifies a row only when the Asset name equals the entry
\* or contains it as a whole word; a name that contains an entry only inside a longer
\* word, and matches nothing else, on a Platform of no list, stays Other.
C29_ExactMatchWholeWord ==
    Classified =>
        \A i \in 1..Len(df) :
            (~whole_word_hits[df[i].Asset] /\ ~PlatformListed(df[i].Platform))
                => out.res[i].Asset_Type = "Other"

\* a row that not even a substring of its Asset name or its Platform resolves stays Other
C29_SubstringOrOther ==
    Classified =>
        \A i \in 1..Len(df) :
            (~asset_rule_hits[df[i].Asset] /\ ~PlatformListed(df[i].Platform))
                => out.res[i].Asset_Type = "Other"

(***************************************************************************)
(* utils/data_processing.py: filters, aggregation and metrics.             *)
(* A frame is a sequence of rows; pd.DataFrame() is the empty sequence.    *)
(***************************************************************************)

\* str order of the names of the model, as sorted() gives it
GroupOrder ==
    << "", "Acme Ltd", "BTC", "Cash", "Coinbase", "GBP", "Gold Sovereign", "HSBC", "IBKR",
       "IBKR Total Portfolio", "Investments", "MotoNovo", "ON BNS SAVER", "Other",
       "Pension Cash", "Pension Shares", "Pensions", "Porsche Taycan 4S", "Property",
       "SL Pension", "Savings Account", "Solar Panels", "USD Bond Fund",
       "Vehicles", "Wahed", "Wahed SIPP", "Wise" >>

NameRank(s) == CHOOSE i \in 1..Len(GroupOrder) : GroupOrder[i] = s

filter_by_asset_type(frame, asset_type) ==
    IF frame = <<>> THEN <<>> ELSE OfType(frame, asset_type)

get_latest_month_data(frame) ==
    IF frame = <<>> THEN <<>>
    ELSE LET latest_month == PeriodMax(Months(frame))
         IN  InMonth(frame, latest_month)

\* the values of the grouping columns of a row
GroupKey(r, group_by_cols) == [i \in 1..Len(group_by_cols) |-> r[group_by_cols[i]]]

RECURSIVE KeyLess(_, _)
KeyLess(a, b) ==
    IF a = <<>> \/ b = <<>> THEN FALSE
    ELSE IF Head(a) # Head(b) THEN NameRank(Head(a)) < NameRank(Head(b))
    ELSE KeyLess(Tail(a), Tail(b))

GroupLess(g, h) == g.Month < h.Month \/ (g.Month = h.Month /\ KeyLess(g.Key, h.Key))

RECURSIVE SortGroups(_)
\* groupby(...) lists its groups in the order of their keys
SortGroups(S) ==
    IF S = {} THEN <<>>
    ELSE LET m == CHOOSE g \in S : \A h \in S \ {g} : GroupLess(g, h)
         IN  <<m>> \o SortGroups(S \ {m})

\* groupby takes the first row of each group instead of summing the group
get_monthly_aggregation_first(frame, group_by_cols) ==
    IF frame = <<>> THEN <<>>
    ELSE LET groups == {[Month |-> to_period(frame[i].Timestamp),
                         Key |-> GroupKey(frame[i], group_by_cols)] : i \in DOMAIN frame}
             aggregated == SortGroups(groups)
         IN  [j \in 1..Len(aggregated) |->
                [Month |-> to_timestamp(aggregated[j].Month),
                 Key |-> aggregated[j].Key,
                 Value |-> Head(SelectSeq(frame, LAMBDA r :
                                /\ to_period(r.Timestamp) = aggregated[j].Month
                                /\ GroupKey(r, group_by_cols) = aggregated[j].Key)).Value]]

\* one row per (Month, group key) with the sum of the group's Values
get_monthly_aggregation(frame, group_by_cols) ==
    IF frame = <<>> THEN <<>>
    ELSE LET groups == {[Month |-> to_period(frame[i].Timestamp),
                         Key |-> GroupKey(frame[i], group_by_cols)] : i \in DOMAIN frame}
             aggregated == SortGroups(groups)
         IN  [j \in 1..Len(aggregated) |->
                [Month |-> to_timestamp(aggregated[j].Month),
                 Key |-> aggregated[j].Key,
                 Value |-> SumValues(SelectSeq(frame, LAMBDA r :
                                /\ to_period(r.Timestamp) = aggregated[j].Month
                                /\ GroupKey(r, group_by_cols) = aggregated[j].Key))]]

RECURSIVE SortBreakdown(_)
\* sort_values('Value', ascending=False); equal Values keep the group order
SortBreakdown(S) ==
    IF S = {} THEN <<>>
    ELSE LET m == CHOOSE g \in S : \A h \in S \ {g} :
                    \/ g.Value > h.Value
                    \/ (g.Value = h.Value /\ NameRank(g.Key) < NameRank(h.Key))
         IN  <<m>> \o SortBreakdown(S \ {m})

BreakdownCol(breakdown_type) ==
    CASE breakdown_type = "platform" -> "Platform"
      [] breakdown_type = "asset_type" -> "Asset_Type"
      [] breakdown_type = "asset" -> "Asset"

get_asset_breakdown(frame, breakdown_type) ==
    IF frame = <<>> THEN <<>>
    ELSE LET breakdown_col == BreakdownCol(breakdown_type)
             latest_data == get_latest_month_data(frame)
             total == SumValues(latest_data)
             breakdown == {[Key |-> k,
                            Value |-> SumValues(SelectSeq(latest_data,
                                          LAMBDA r : r[breakdown_col] = k))] :
                           k \in Column(latest_data, breakdown_col)}
             sorted == SortBreakdown(breakdown)
         IN  IF latest_data = <<>> THEN <<>>
             ELSE [j \in 1..Len(sorted) |->
                     [Key |-> sorted[j].Key, Value |-> sorted[j].Value,
                      Percentage |-> Scale(Div(sorted[j].Value, total), 100)]]

\* the dictionary returned for an empty frame or an asset type with no rows
NoAssetTypeMetrics ==
    [latest_value |-> 0, mom_change |-> None, ytd_change |-> None,
     platforms |-> 0, assets |-> 0, months_tracked |-> 0,
     max_value |-> 0, min_value |-> 0]

\* avg_monthly_value and volatility (mean and std of the monthly totals) are left out
calculate_asset_type_metrics(frame, asset_type) ==
    LET asset_df == filter_by_asset_type(frame, asset_type)
        latest_month == PeriodMax(Months(asset_df))
        latest_data == InMonth(asset_df, latest_month)
        latest_value == SumValues(latest_data)
        previous_month == PeriodMax({p \in Months(asset_df) : p < latest_month})
        previous_value == SumValues(InMonth(asset_df, previous_month))
        mom_change ==
            IF previous_month # NaT /\ previous_value > 0
            THEN Scale(Div(latest_value - previous_value, previous_value), 100)
            ELSE None
        current_year == PeriodYear(latest_month)
        ytd_start_month ==
            PeriodMin({p \in Months(asset_df) : PeriodYear(p) = current_year})
        ytd_start_value == SumValues(InMonth(asset_df, ytd_start_month))
        ytd_change ==
            IF ytd_start_month # NaT /\ ytd_start_value > 0
            THEN Scale(Div(latest_value - ytd_start_value, ytd_start_value), 100)
            ELSE None
        monthly_agg == get_monthly_aggregation(asset_df, <<>>)
    IN  IF frame = <<>> THEN NoAssetTypeMetrics
        ELSE IF asset_df = <<>> THEN NoAssetTypeMetrics
        ELSE [latest_value |-> latest_value,
              mom_change |-> mom_change,
              ytd_change |-> ytd_change,
              platforms |-> Cardinality(Column(latest_data, "Platform")),
              assets |-> Cardinality(Column(latest_data, "Asset")),
              months_tracked |-> Cardinality(Months(asset_df)),
              max_value |-> SetMax(Column(monthly_agg, "Value")),
              min_value |-> SetMin(Column(monthly_agg, "Value"))]

\* the asset types calculate_allocation_metrics and create_allocation_time_series loop over
AllocationTypes == <<ASSET_TYPES["CASH"], ASSET_TYPES["INVESTMENTS"], ASSET_TYPES["PENSIONS"]>>

\* pd.Timestamp.now(): the moment of the call, no month start of the model
TimestampNow == [k |-> "now"]

\* the month stamps are Timestamps, None when the month is absent
MonthStamp(p) == IF p # NaT THEN to_timestamp(p) ELSE None

calculate_allocation_metrics(frame) ==
    LET latest_month == PeriodMax(Months(frame))
        previous_month == PeriodMax({p \in Months(frame) : p < latest_month})
        current_year == PeriodYear(latest_month)
        ytd_start_month ==
            PeriodMin({p \in Months(frame) : PeriodYear(p) = current_year})
        latest_data == InMonth(frame, latest_month)
        total_current == SumValues(latest_data)
        total_previous == SumValues(InMonth(frame, previous_month))
        mom_increase ==
            IF previous_month # NaT /\ total_previous > 0
            THEN Num(total_current - total_previous) ELSE None
        total_ytd_start == SumValues(InMonth(frame, ytd_start_month))
        ytd_increase ==
            IF ytd_start_month # NaT /\ total_ytd_start > 0
            THEN Num(total_current - total_ytd_start) ELSE None
        OfTypeMetrics(asset_type) ==
            LET current_value == SumValues(OfType(latest_data, asset_type))
                allocation_pct ==
                    IF total_current > 0
                    THEN Scale(Div(current_value, total_current), 100) ELSE Num(0)
                prev_value == SumValues(OfType(InMonth(frame, previous_month), asset_type))
                mom_pct_increase ==
                    IF previous_month # NaT /\ prev_value > 0
                    THEN Scale(Div(current_value - prev_value, prev_value), 100)
                    ELSE None
                ytd_start_value ==
                    SumValues(OfType(InMonth(frame, ytd_start_month), asset_type))
                ytd_pct_increase ==
                    IF ytd_start_month # NaT /\ ytd_start_value > 0
                    THEN Scale(Div(current_value - ytd_start_value, ytd_start_value), 100)
                    ELSE None
            IN  [current |-> current_value, allocation |-> allocation_pct,
                 mom_pct_increase |-> mom_pct_increase,
                 ytd_pct_increase |-> ytd_pct_increase]
    IN  IF frame = <<>>
        THEN [Total |-> "absent", types |-> <<>>, latest_month_ts |-> TimestampNow,
              previous_month_ts |-> None, ytd_start_month_ts |-> None]
        ELSE [Total |-> [current |-> total_current, mom_increase |-> mom_increase,
                         ytd_increase |-> ytd_increase],
              types |-> [t \in {AllocationTypes[i] : i \in 1..Len(AllocationTypes)} |->
                            OfTypeMetrics(t)],
              latest_month_ts |-> MonthStamp(latest_month),
              previous_month_ts |-> MonthStamp(previous_month),
              ytd_start_month_ts |-> MonthStamp(ytd_start_month)]

\* reference points whose previous month is not kept strictly below the latest month
get_asset_type_time_periods_not_strict(frame, asset_type) ==
    LET asset_df == filter_by_asset_type(frame, asset_type)
        latest_month == PeriodMax(Months(asset_df))
        previous_month == PeriodMax({p \in Months(asset_df) : p <= latest_month})
        current_year == PeriodYear(latest_month)
        ytd_start_month ==
            PeriodMin({p \in Months(asset_df) : PeriodYear(p) = current_year})
    IN  IF frame = <<>> \/ asset_df = <<>>
        THEN [latest_month_ts |-> TimestampNow,
              previous_month_ts |-> None, ytd_start_month_ts |-> None]
        ELSE [latest_month_ts |-> MonthStamp(latest_month),
              previous_month_ts |-> MonthStamp(previous_month),
              ytd_start_month_ts |-> MonthStamp(ytd_start_month)]

\* (latest, previous, YTD start) month stamps of one asset type's rows
get_asset_type_time_periods(frame, asset_type) ==
    LET asset_df == filter_by_asset_type(frame, asset_type)
        latest_month == PeriodMax(Months(asset_df))
        previous_month == PeriodMax({p \in Months(asset_df) : p < latest_month})
        current_year == PeriodYear(latest_month)
        ytd_start_month ==
            PeriodMin({p \in Months(asset_df) : PeriodYear(p) = current_year})
    IN  IF frame = <<>> \/ asset_df = <<>>
        THEN [latest_month_ts |-> TimestampNow,
              previous_month_ts |-> None, ytd_start_month_ts |-> None]
        ELSE [latest_month_ts |-> MonthStamp(latest_month),
              previous_month_ts |-> MonthStamp(previous_month),
              ytd_start_month_ts |-> MonthStamp(ytd_start_month)]

RECURSIVE SortPeriods(_)
SortPeriods(S) ==
    IF S = {} THEN <<>> ELSE <<SetMin(S)>> \o SortPeriods(S \ {SetMin(S)})

\* one row per month, sorted by Month, with each type's share of the month's total
create_allocation_time_series(frame) ==
    IF frame = <<>> THEN <<>>
    ELSE LET months == SortPeriods(Months(frame))
             MonthAllocation(month) ==
                LET month_data == InMonth(frame, month)
                    total_value == SumValues(month_data)
                IN  [Month |-> to_timestamp(month),
                     allocation |->
                        [t \in {AllocationTypes[i] : i \in 1..Len(AllocationTypes)} |->
                            IF total_value > 0
                            THEN Div(SumValues(OfType(month_data, t)), total_value)
                            ELSE Num(0)]]
         IN  [j \in 1..Len(months) |-> MonthAllocation(months[j])]

(***************************************************************************)
(* utils/metrics.py                                                        *)
(***************************************************************************)
calculate_overall_metrics(frame) ==
    LET latest_month == PeriodMax(Months(frame))
        prev_month == PeriodMax({p \in Months(frame) : p < latest_month})
        latest_df == InMonth(frame, latest_month)
        latest_total == SumValues(latest_df)
        prev_total == SumValues(InMonth(frame, prev_month))
        mom_change ==
            IF prev_month # NaT
            THEN Scale(Div(latest_total - prev_total, prev_total), 100)
            ELSE None
    IN  [latest_total |-> latest_total, mom_change |-> mom_change,
         latest_month |-> latest_month, unique_combinations |-> Len(latest_df)]

\* allocation_change and ytd_allocation_change are left out
metrics_calculate_allocation_metrics(frame) ==
    LET latest_month == PeriodMax(Months(frame))
        prev_month == PeriodMax({p \in Months(frame) : p < latest_month})
        latest_year == PeriodYear(latest_month)
        ytd_start_month ==
            PeriodMin({p \in Months(frame) : PeriodYear(p) = latest_year})
        latest_df == InMonth(frame, latest_month)
        prev_df == InMonth(frame, prev_month)
        ytd_df == InMonth(frame, ytd_start_month)
        total_latest == SumValues(latest_df)
        total_prev == SumValues(prev_df)
        total_ytd == SumValues(ytd_df)
        asset_types == Column(latest_df, "Asset_Type")
        OfTypeMetrics(asset_type) ==
            LET latest_val == SumValues(OfType(latest_df, asset_type))
                prev_val == IF prev_month # NaT
                            THEN SumValues(OfType(prev_df, asset_type)) ELSE 0
                ytd_val == IF ytd_start_month # NaT
                           THEN SumValues(OfType(ytd_df, asset_type)) ELSE 0
                mom_increase == latest_val - prev_val
                ytd_increase == latest_val - ytd_val
            IN  [current |-> latest_val,
                 allocation |-> IF total_latest # 0
                                THEN Scale(Div(latest_val, total_latest), 100) ELSE Num(0),
                 mom_increase |-> mom_increase,
                 mom_pct_increase |-> IF prev_val # 0
                                      THEN Scale(Div(mom_increase, prev_val), 100)
                                      ELSE None,
                 ytd_increase |-> ytd_increase,
                 ytd_pct_increase |-> IF ytd_val # 0
                                      THEN Scale(Div(ytd_increase, ytd_val), 100)
                                      ELSE None]
    IN  [types |-> [t \in asset_types |-> OfTypeMetrics(t)],
         Total |->
            [current |-> total_latest,
             mom_increase |-> IF prev_month # NaT
                              THEN Num(total_latest - total_prev) ELSE None,
             mom_pct_increase |-> IF prev_month # NaT /\ total_prev # 0
                                  THEN Scale(Div(total_latest - total_prev, total_prev), 100)
                                  ELSE None,
             ytd_increase |-> IF ytd_start_month # NaT
                              THEN Num(total_latest - total_ytd) ELSE None,
             ytd_pct_increase |-> IF ytd_start_month # NaT /\ total_ytd # 0
                                  THEN Scale(Div(total_latest - total_ytd, total_ytd), 100)
                                  ELSE None],
         latest_month |-> latest_month,
         prev_month |-> prev_month,
         ytd_start_month |-> ytd_start_month]

(***************************************************************************)
(* Drawdown: utils/etl/monthly_metrics.py and the deep-dive pages.         *)
(***************************************************************************)
\* the monthly totals of a frame, one per month in month order
MonthlyTotals(frame) ==
    LET months == SortPeriods(Months(frame))
    IN  [j \in 1..Len(months) |->
            [Month |-> months[j], Value |-> SumValues(InMonth(frame, months[j]))]]

\* Series.cummax() / Series.expanding().max() at position j
cummax(monthly, j) == SetMax({monthly[i].Value : i \in 1..j})

\* (Value - running_max) / running_max, element by element
Drawdown(monthly) ==
    [j \in 1..Len(monthly) |->
        [Month |-> monthly[j].Month,
         Value |-> monthly[j].Value,
         Peak_Value |-> cummax(monthly, j),
         Drawdown |-> Div(monthly[j].Value - cummax(monthly, j), cummax(monthly, j))]]

\* Series.pct_change() at position j: x[j] / x[j - 1] - 1, NaN at the first position
pct_change(monthly, j) ==
    IF j = 1 THEN NaN ELSE Plus(Div(monthly[j].Value, monthly[j - 1].Value), -1)

RECURSIVE cumprod(_, _)
\* the running product of Series.cumprod() after position j: NaN entries are skipped
cumprod(xs, j) ==
    IF j = 0 THEN Num(1)
    ELSE IF xs[j].k = "nan" THEN cumprod(xs, j - 1)
    ELSE Mul(cumprod(xs, j - 1), xs[j])

\* the monthly totals in month order with the return and drawdown columns; the rolling,
\* volatility, Sharpe, Max_Drawdown and Calmar columns are left out
calculate_monthly_metrics(frame) ==
    IF frame = <<>> THEN <<>>
    ELSE LET monthly_data == Drawdown(MonthlyTotals(frame))
             Monthly_Return == [j \in 1..Len(monthly_data) |-> pct_change(monthly_data, j)]
             growth == [j \in 1..Len(monthly_data) |-> Plus(Monthly_Return[j], 1)]
         IN  [j \in 1..Len(monthly_data) |->
                [Month |-> monthly_data[j].Month,
                 Value |-> monthly_data[j].Value,
                 Portfolio_Value |-> monthly_data[j].Value,
                 Monthly_Return |-> Monthly_Return[j],
                 Cumulative_Return |-> IF growth[j].k = "nan" THEN NaN
                                       ELSE Plus(cumprod(growth, j), -1),
                 Peak_Value |-> monthly_data[j].Peak_Value,
                 Drawdown |-> monthly_data[j].Drawdown,
                 Year |-> PeriodYear(monthly_data[j].Month)]]

\* the rows of one (Month, Asset) group
InMonthOfAsset(rows, p, asset) ==
    SelectSeq(rows, LAMBDA r : to_period(r.Timestamp) = p /\ r.Asset = asset)

\* calculate_actual_pension_returns(asset_df, cashflows_df): the set of rows of the
\* returned frame (their order is left out), {} for the empty DataFrame
calculate_actual_pension_returns(asset_df, cashflows_df) ==
    LET asset_monthly(asset, p) ==
            LET g == InMonthOfAsset(asset_df, p, asset) IN g[Len(g)].Value
        Net_Cashflow(asset, p) ==
            IF cashflows_df.is_none \/ cashflows_df.rows = <<>> THEN 0
            ELSE SumValues(InMonthOfAsset(cashflows_df.rows, p, asset))
        single_asset_months(asset) ==
            SortPeriods(Months(SelectSeq(asset_df, LAMBDA r : r.Asset = asset)))
        calculate_return(End_Value, Start_Value, net) ==
            IF Start_Value > 0 THEN Frac(End_Value - Start_Value - net, Start_Value)
            ELSE Num(0)
    IN  IF asset_df = <<>> THEN {}
        ELSE {LET months == single_asset_months(aj[1])
                  j == aj[2]
                  End_Value == asset_monthly(aj[1], months[j])
                  Start_Value == asset_monthly(aj[1], months[j - 1])
                  net == Net_Cashflow(aj[1], months[j])
              IN  [Month |-> to_timestamp(months[j]), Asset |-> aj[1],
                   End_Value |-> End_Value, Net_Cashflow |-> net,
                   Start_Value |-> Start_Value,
                   Actual_Return |-> calculate_return(End_Value, Start_Value, net),
                   Value_Before_Cashflow |-> End_Value - net] :
              aj \in {x \in Column(asset_df, "Asset") \X (2..Len(asset_df)) :
                            x[2] <= Len(single_asset_months(x[1]))}}

\* calculate_ytd_metrics(df, current_date) of a monthly metrics frame: {} when it has no
\* row in current_date's year; the volatility, Sharpe, drawdown and Calmar entries are
\* left out
calculate_ytd_metrics(monthly_metrics, current_year) ==
    LET ytd_data == SelectSeq(monthly_metrics, LAMBDA r : r.Year = current_year)
    IN  IF monthly_metrics = <<>> \/ ytd_data = <<>> THEN [ytd_months |-> 0]
        ELSE [ytd_return |-> ytd_data[Len(ytd_data)].Cumulative_Return,
              ytd_months |-> Len(ytd_data),
              current_portfolio_value |-> ytd_data[Len(ytd_data)].Portfolio_Value]

RECURSIVE SumSquares(_)
\* the sum of the squares of the Value column
SumSquares(rows) ==
    IF rows = <<>> THEN 0 ELSE Head(rows).Value * Head(rows).Value + SumSquares(Tail(rows))

\* calculate_rolling_metrics(df, window) of a ledger (no Month column): the monthly totals
\* in month order with the rolling mean of the last window totals, and the square of
\* the rolling standard deviation (ddof = 1); NaN while fewer than window totals are
\* there.  Rolling_Volatility (Std / Avg) is left out.
calculate_rolling_metrics(frame, window) ==
    IF frame = <<>> THEN <<>>
    ELSE LET monthly == MonthlyTotals(frame)
             Window(j) == SubSeq(monthly, j - window + 1, j)
         IN  [j \in 1..Len(monthly) |->
                [Month |-> to_timestamp(monthly[j].Month),
                 Value |-> monthly[j].Value,
                 Rolling_Avg |-> IF j < window THEN NaN
                                 ELSE Div(SumValues(Window(j)), window),
                 Rolling_Std_Squared |->
                    IF j < window \/ window < 2 THEN NaN
                    ELSE Div(window * SumSquares(Window(j))
                                - SumValues(Window(j)) * SumValues(Window(j)),
                             window * (window - 1))]]

\* the caller's frame after the call: calculate_monthly_metrics adds a Month column to it
WithMonth(frame) ==
    [i \in 1..Len(frame) |->
        [Platform |-> frame[i].Platform, Asset |-> frame[i].Asset,
         Value |-> frame[i].Value, Timestamp |-> frame[i].Timestamp,
         Asset_Type |-> frame[i].Asset_Type, Month |-> to_period(frame[i].Timestamp)]]

(***************************************************************************)
(* The metrics functions applied to a loaded ledger.                       *)
(***************************************************************************)
\* the holdings, months and Values of the ledgers of the model
LedgerHoldings ==
    << [Platform |-> "HSBC", Asset |-> "Savings Account"],
       [Platform |-> "Wise", Asset |-> "GBP"],
       [Platform |-> "Coinbase", Asset |-> "BTC"],
       [Platform |-> "MotoNovo", Asset |-> "Porsche Taycan 4S"],
       [Platform |-> "Wahed", Asset |-> "Wahed SIPP"] >>

LedgerMonths ==
    << [y |-> 2023, m |-> 12, d |-> 20], [y |-> 2024, m |-> 1, d |-> 15],
       [y |-> 2024, m |-> 2, d |-> 10] >>

LedgerValues == <<-100, 0, 100, 200>>

NLedgerKeys == Len(LedgerMonths) * Len(LedgerHoldings)

\* the row of the k-th (month, holding) with the v-th Value, classified as the loader does
LedgerRow(k, v) ==
    LET h == LedgerHoldings[((k - 1) % Len(LedgerHoldings)) + 1]
    IN  [Platform |-> h.Platform, Asset |-> h.Asset,
         Value |-> LedgerValues[v],
         Timestamp |-> LedgerMonths[((k - 1) \div Len(LedgerHoldings)) + 1],
         Asset_Type |-> classify_table[h.Asset, h.Platform]]

\* ledgers as load_data returns them: at most one row per (month, Asset), up to n
\* rows; f lists the rows' keys in increasing order, 0 standing for no row, g their Values
Ledgers(n) ==
    {LET rows == SelectSeq([i \in 1..n |-> <<f[i], g[i]>>], LAMBDA kv : kv[1] # 0)
     IN  [i \in 1..Len(rows) |-> LedgerRow(rows[i][1], rows[i][2])] :
        f \in {h \in [1..n -> 0..NLedgerKeys] :
                    \A i \in 1..(n - 1) : h[i] = 0 \/ h[i] < h[i + 1]},
        g \in [1..n -> 1..Len(LedgerValues)]}

InitMetrics ==
    /\ df \in Ledgers(MaxRows)
    /\ out = NoOut
    /\ sheet = <<>>
    /\ cache = NoOut
    /\ session_state = NoOut
    /\ run = NoOut
    /\ car_file = "absent"
    /\ car_cache = NoOut

AssetTypeMetrics ==
    /\ out.op = "none"
    /\ \E asset_type \in AssetTypeSet :
            out' = [op |-> "calculate_asset_type_metrics", asset_type |-> asset_type,
                    res |-> calculate_asset_type_metrics(df, asset_type)]
    /\ UNCHANGED <<sheet, cache, session_state, run, df, car_file, car_cache>>

AssetTypeTimePeriods ==
    /\ out.op = "none"
    /\ \E asset_type \in AssetTypeSet :
            out' = [op |-> "get_asset_type_time_periods", asset_type |-> asset_type,
                    res |-> get_asset_type_time_periods(df, asset_type)]
    /\ UNCHANGED <<sheet, cache, session_state, run, df, car_file, car_cache>>

AllocationMetrics ==
    /\ out.op = "none"
    /\ out' = [op |-> "calculate_allocation_metrics", res |-> calculate_allocation_metrics(df)]
    /\ UNCHANGED <<sheet, cache, session_state, run, df, car_file, car_cache>>

OverallMetrics ==
    /\ out.op = "none"
    /\ out' = [op |-> "calculate_overall_metrics", res |-> calculate_overall_metrics(df)]
    /\ UNCHANGED <<sheet, cache, session_state, run, df, car_file, car_cache>>

MetricsAllocationMetrics ==
    /\ out.op = "none"
    /\ out' = [op |-> "metrics.calculate_allocation_metrics",
               res |-> metrics_calculate_allocation_metrics(df)]
    /\ UNCHANGED <<sheet, cache, session_state, run, df, car_file, car_cache>>

MonthlyAggregation ==
    /\ out.op = "none"
    /\ \E group_by_cols \in {<<>>, <<"Asset_Type">>, <<"Platform">>} :
            out' = [op |-> "get_monthly_aggregation", group_by_cols |-> group_by_cols,
                    res |-> get_monthly_aggregation(df, group_by_cols)]
    /\ UNCHANGED <<sheet, cache, session_state, run, df, car_file, car_cache>>

AllocationTimeSeries ==
    /\ out.op = "none"
    /\ out' = [op |-> "create_allocation_time_series",
               res |-> create_allocation_time_series(df)]
    /\ UNCHANGED <<sheet, cache, session_state, run, df, car_file, car_cache>>

AssetBreakdown ==
    /\ out.op = "none"
    /\ \E breakdown_type \in {"platform", "asset_type", "asset"} :
            out' = [op |-> "get_asset_breakdown", breakdown_type |-> breakdown_type,
                    res |-> get_asset_breakdown(df, breakdown_type)]
    /\ UNCHANGED <<sheet, cache, session_state, run, df, car_file, car_cache>>

MonthlyMetrics ==
    /\ out.op = "none"
    /\ out' = [op |-> "calculate_monthly_metrics", res |-> calculate_monthly_metrics(df)]
    /\ df' = IF df = <<>> THEN df ELSE WithMonth(df)
    /\ UNCHANGED <<sheet, cache, session_state, run, car_file, car_cache>>

\* the pension cashflow sheet: a contribution or a fee of the pension in one month
CashflowRows ==
    {[Platform |-> "Wahed", Asset |-> "Wahed SIPP", Value |-> v, Timestamp |-> ts] :
        v \in {-100, 100}, ts \in {LedgerMonths[i] : i \in 1..Len(LedgerMonths)}}

\* load_pension_cashflows(): None, no row, one row, or two contributions in one month
CashflowFrames ==
    {[is_none |-> TRUE, rows |-> <<>>], [is_none |-> FALSE, rows |-> <<>>]}
    \cup {[is_none |-> FALSE, rows |-> <<r>>] : r \in CashflowRows}
    \cup {[is_none |-> FALSE, rows |-> <<r, r>>] : r \in {c \in CashflowRows : c.Value > 0}}

\* create_pension_asset_analysis: the actual returns of the rows of type Pensions
ActualPensionReturns ==
    /\ out.op = "none"
    /\ \E cashflows_df \in CashflowFrames :
            out' = [op |-> "calculate_actual_pension_returns", cashflows_df |-> cashflows_df,
                    res |-> calculate_actual_pension_returns(
                                filter_by_asset_type(df, "Pensions"), cashflows_df)]
    /\ UNCHANGED <<sheet, cache, session_state, run, df, car_file, car_cache>>

\* the pipeline on the ledger as it stood after its first n rows: the raw rows are
\* classified, aggregated by month, and the month-over-month change of one of their
\* asset types is computed
RoundTrip ==
    /\ out.op = "none"
    /\ \E n \in 1..Len(df) :
            LET rows == [i \in 1..n |->
                            [c \in DOMAIN df[i] \ {"Asset_Type"} |-> df[i][c]]]
                classified == classify_asset_types(rows)
            IN  \E asset_type \in Column(classified, "Asset_Type") :
                    out' = [op |-> "round_trip", rows |-> rows, classified |-> classified,
                            asset_type |-> asset_type,
                            monthly |-> get_monthly_aggregation(classified, <<>>),
                            metrics |-> calculate_asset_type_metrics(classified, asset_type)]
    /\ UNCHANGED <<sheet, cache, session_state, run, df, car_file, car_cache>>

\* calculate_ytd_metrics over the monthly metrics of the ledger; current_date is the
\* date of the call, in a year of the ledger or in the year after
YtdMetrics ==
    /\ out.op = "none"
    /\ \E current_year \in {PeriodYear(p) : p \in Months(df)}
                            \cup {PeriodYear(p) + 1 : p \in Months(df)} :
            out' = [op |-> "calculate_ytd_metrics", current_year |-> current_year,
                    res |-> calculate_ytd_metrics(calculate_monthly_metrics(df), current_year)]
    /\ UNCHANGED <<sheet, cache, session_state, run, df, car_file, car_cache>>

\* calculate_rolling_metrics works on df.copy(): the caller's frame is left alone
RollingMetrics ==
    /\ out.op = "none"
    /\ \E window \in 1..MaxWindow :
            out' = [op |-> "calculate_rolling_metrics", window |-> window,
                    res |-> calculate_rolling_metrics(df, window)]
    /\ UNCHANGED <<sheet, cache, session_state, run, df, car_file, car_cache>>

\* pages/5_All_Assets.py: the drawdown of the whole ledger's monthly totals
AllAssetsPage ==
    /\ out.op = "none"
    /\ out' = [op |-> "all_assets_drawdown", res |-> Drawdown(MonthlyTotals(df))]
    /\ UNCHANGED <<sheet, cache, session_state, run, df, car_file, car_cache>>

\* pages/4_Investments.py: the drawdown of the Investments rows' monthly totals
InvestmentsPage ==
    /\ out.op = "none"
    /\ filter_by_asset_type(df, "Investments") # <<>>
    /\ out' = [op |-> "investments_drawdown",
               res |-> Drawdown(MonthlyTotals(filter_by_asset_type(df, "Investments")))]
    /\ UNCHANGED <<sheet, cache, session_state, run, df, car_file, car_cache>>

NextMetrics ==
    \/ AssetTypeMetrics
    \/ AllocationMetrics
    \/ AssetTypeTimePeriods
    \/ OverallMetrics
    \/ MetricsAllocationMetrics
    \/ MonthlyAggregation
    \/ AllocationTimeSeries
    \/ AssetBreakdown
    \/ MonthlyMetrics
    \/ RollingMetrics
    \/ YtdMetrics
    \/ RoundTrip
    \/ ActualPensionReturns
    \/ AllAssetsPage
    \/ InvestmentsPage

SpecMetrics == InitMetrics /\ [][NextMetrics]_vars

(***************************************************************************)
(* Properties of the metrics functions.                                    *)
(***************************************************************************)
\* the percentage change from prev to cur, None when prev is absent or zero
PctChange(cur, prev_exists, prev) ==
    IF prev_exists /\ prev # 0 THEN Scale(Div(cur - prev, prev), 100) ELSE None

LatestMonth(rows) == PeriodMax(Months(rows))

PreviousMonth(rows) == PeriodMax({p \in Months(rows) : p < LatestMonth(rows)})

\* C2: on a ledger whose rows all fall in one calendar month,
\* calculate_asset_type_metrics returns mom_change = None and ytd_change = None and
\* calculate_allocation_metrics returns None for every per-type mom_pct_increase and
\* ytd_pct_increase.
C2_SingleMonthUndefined ==
    Cardinality(Months(df)) = 1 =>
        /\ out.op = "calculate_asset_type_metrics" =>
                out.res.mom_change = None /\ out.res.ytd_change = None
        /\ out.op \in {"calculate_allocation_metrics", "metrics.calculate_allocation_metrics"} =>
                \A t \in DOMAIN out.res.types :
                    /\ out.res.types[t].mom_pct_increase = None
                    /\ out.res.types[t].ytd_pct_increase = None

\* C6: for every month of the ledger, the Values of the rows get_monthly_aggregation
\* returns for that month, grouped by Asset_Type or by Platform or ungrouped, add up to the
\* sum of the ledger's Values in that month, and the result has rows for exactly the
\* ledger's months.
C6_AggregationConservation ==
    out.op = "get_monthly_aggregation" =>
        LET total == get_monthly_aggregation(df, <<>>)
        IN  /\ Column(out.res, "Month") = {to_timestamp(p) : p \in Months(df)}
            /\ Column(total, "Month") = Column(out.res, "Month")
            /\ \A p \in Months(df) :
                    /\ SumValues(SelectSeq(out.res, LAMBDA g : g.Month = to_timestamp(p)))
                            = SumValues(InMonth(df, p))
                    /\ SumValues(SelectSeq(total, LAMBDA g : g.Month = to_timestamp(p)))
                            = SumValues(InMonth(df, p))

\* C6 witness: two holdings on two platforms in one month, aggregated by Platform
C6_Witness ==
    /\ out.op = "get_monthly_aggregation"
    /\ out.group_by_cols = <<"Platform">>
    /\ Len(df) = 2
    /\ to_period(df[1].Timestamp) = to_period(df[2].Timestamp)
    /\ df[1].Value = 100 /\ df[2].Value = 100
    /\ Len(out.res) = 2
    /\ out.res[1].Value + out.res[2].Value = 200

DrawdownOps == {"calculate_monthly_metrics", "all_assets_drawdown", "investments_drawdown"}

\* C7: every drawdown value is <= 0, and it is exactly 0 at every month whose value
\* equals the running maximum.
C7_DrawdownNonPositive ==
    out.op \in DrawdownOps =>
        \A j \in 1..Len(out.res) :
            /\ IsNum(out.res[j].Drawdown) /\ out.res[j].Drawdown.n <= 0
            /\ out.res[j].Value = out.res[j].Peak_Value => out.res[j].Drawdown = Num(0)

\* C8: at a month whose running maximum is 0 the drawdown is 0 (or the month is skipped).
C8_ZeroRunningMaxGuarded ==
    out.op \in DrawdownOps =>
        \A j \in 1..Len(out.res) :
            out.res[j].Peak_Value = 0 => out.res[j].Drawdown = Num(0)

\* C9: the month-over-month change is (current - previous) / previous * 100 whenever the
\* previous month exists and its value is non-zero, and None exactly when the previous
\* month is absent or its value is zero.
C9_MoMChange ==
    /\ out.op = "calculate_asset_type_metrics" =>
            LET asset_df == OfType(df, out.asset_type)
            IN  out.res.mom_change =
                    PctChange(SumValues(InMonth(asset_df, LatestMonth(asset_df))),
                              PreviousMonth(asset_df) # NaT,
                              SumValues(InMonth(asset_df, PreviousMonth(asset_df))))
    /\ (out.op = "calculate_allocation_metrics" /\ df # <<>>) =>
            \A t \in DOMAIN out.res.types :
                out.res.types[t].mom_pct_increase =
                    PctChange(SumValues(OfType(InMonth(df, LatestMonth(df)), t)),
                              PreviousMonth(df) # NaT,
                              SumValues(OfType(InMonth(df, PreviousMonth(df)), t)))
    /\ out.op = "calculate_overall_metrics" =>
            out.res.mom_change =
                PctChange(SumValues(InMonth(df, LatestMonth(df))),
                          PreviousMonth(df) # NaT,
                          SumValues(InMonth(df, PreviousMonth(df))))

\* C10: every allocation percentage is 0 when the total it divides by is 0.
C10_ZeroTotalAllocation ==
    /\ (out.op = "calculate_allocation_metrics" /\ df # <<>>
            /\ SumValues(InMonth(df, LatestMonth(df))) = 0) =>
            \A t \in DOMAIN out.res.types : out.res.types[t].allocation = Num(0)
    /\ out.op = "create_allocation_time_series" =>
            \A j \in 1..Len(out.res) :
                SumValues(InMonth(df, to_period(out.res[j].Month))) = 0 =>
                    \A t \in DOMAIN out.res[j].allocation :
                        out.res[j].allocation[t] = Num(0)
    /\ (out.op = "get_asset_breakdown"
            /\ SumValues(InMonth(df, LatestMonth(df))) = 0) =>
            \A j \in 1..Len(out.res) : out.res[j].Percentage = Num(0)

\* C13: calculate_rolling_metrics and calculate_monthly_metrics never mutate their input:
\* after the call the caller's ledger has the same columns and the same values as before.
C13_InputNotMutated ==
    [][out'.op \in {"calculate_rolling_metrics", "calculate_monthly_metrics"} => df' = df]_vars

\* the three month stamps of res are the reference points of rows: the maximum month
\* present, the maximum month present strictly below it (None when there is none), and
\* the minimum month present in the calendar year of the maximum
ReferencePointsOf(rows, res) ==
    \E latest \in Months(rows) :
        /\ \A q \in Months(rows) : q <= latest
        /\ res.latest_month_ts = to_timestamp(latest)
        /\ IF \E q \in Months(rows) : q < latest
           THEN \E prev \in Months(rows) :
                    /\ prev < latest
                    /\ \A q \in Months(rows) : q < latest => q <= prev
                    /\ res.previous_month_ts = to_timestamp(prev)
           ELSE res.previous_month_ts = None
        /\ \E ytd \in Months(rows) :
                /\ PeriodYear(ytd) = PeriodYear(latest)
                /\ \A q \in Months(rows) : PeriodYear(q) = PeriodYear(latest) => ytd <= q
                /\ res.ytd_start_month_ts = to_timestamp(ytd)

\* C17 as stated: the reference points are: latest_month, the maximum month present in the
\* ledger; previous_month, the maximum month present strictly below latest_month, absent
\* when there is none; ytd_start_month, the minimum month present in latest_month's year.
C17_ReferencePointsOfLedger ==
    /\ (out.op = "calculate_allocation_metrics" /\ df # <<>>) =>
            ReferencePointsOf(df, out.res)
    /\ (out.op = "get_asset_type_time_periods" /\ OfType(df, out.asset_type) # <<>>) =>
            ReferencePointsOf(df, out.res)

\* C17: the reference points are those of the rows the function works on, the whole
\* ledger in calculate_allocation_metrics and the rows of the asset type asked for in
\* get_asset_type_time_periods: latest_month is the maximum month present in these rows,
\* previous_month the maximum month present strictly below it (None when there is none),
\* ytd_start_month the minimum month present in latest_month's year; for an asset type
\* without rows the latest month is the time of the call and the other two are None.
C17_ReferencePointsOfRows ==
    /\ (out.op = "calculate_allocation_metrics" /\ df # <<>>) =>
            ReferencePointsOf(df, out.res)
    /\ out.op = "get_asset_type_time_periods" =>
            IF OfType(df, out.asset_type) # <<>>
            THEN ReferencePointsOf(OfType(df, out.asset_type), out.res)
            ELSE /\ out.res.latest_month_ts = TimestampNow
                 /\ out.res.previous_month_ts = None
                 /\ out.res.ytd_start_month_ts = None

\* C17 witness: Cash has its only row in December 2023 and the ledger's latest month is
\* February 2024: the points of Cash are December 2023, None and December 2023
C17_Witness ==
    /\ out.op = "get_asset_type_time_periods" /\ out.asset_type = "Cash"
    /\ Months(OfType(df, "Cash")) = {to_period([y |-> 2023, m |-> 12, d |-> 1])}
    /\ \E i \in DOMAIN df : to_period(df[i].Timestamp) = to_period([y |-> 2024, m |-> 2, d |-> 1])
    /\ out.res = [latest_month_ts |-> [y |-> 2023, m |-> 12, d |-> 1],
                  previous_month_ts |-> None,
                  ytd_start_month_ts |-> [y |-> 2023, m |-> 12, d |-> 1]]

\* the total of the first tracked month of the calendar year of the ledger's latest month
YtdStartValue(rows) ==
    SumValues(InMonth(rows, PeriodMin({p \in Months(rows) :
                                        PeriodYear(p) = PeriodYear(LatestMonth(rows))})))

\* C18: the year-to-date return is the percentage change between the latest value and the
\* value at the first tracked month of the current calendar year; months of earlier years
\* do not enter it (checked where that first value is positive and, for
\* calculate_ytd_metrics, where the call is made in the year of the latest month).
C18_YtdFromYearStart ==
    /\ (/\ out.op = "calculate_ytd_metrics"
        /\ df # <<>>
        /\ out.current_year = PeriodYear(LatestMonth(df))
        /\ YtdStartValue(df) > 0) =>
            Scale(out.res.ytd_return, 100)
                = PctChange(SumValues(InMonth(df, LatestMonth(df))), TRUE, YtdStartValue(df))
    /\ (/\ out.op = "calculate_asset_type_metrics"
        /\ OfType(df, out.asset_type) # <<>>
        /\ YtdStartValue(OfType(df, out.asset_type)) > 0) =>
            out.res.ytd_change
                = PctChange(SumValues(InMonth(OfType(df, out.asset_type),
                                              LatestMonth(OfType(df, out.asset_type)))),
                            TRUE, YtdStartValue(OfType(df, out.asset_type)))

\* the part of C18 that is about calculate_asset_type_metrics alone
C18_AssetTypeMetrics == out.op = "calculate_asset_type_metrics" => C18_YtdFromYearStart

\* the value of the pension in month p and its tracked months
PensionValue(p) == SumValues(InMonth(OfType(df, "Pensions"), p))

PensionMonths == Months(OfType(df, "Pensions"))

\* C19: for each pension asset and each tracked month after its first, Actual_Return =
\* (End_Value - Start_Value - Net_Cashflow) / Start_Value, with Start_Value the asset's
\* value in its previous tracked month and Net_Cashflow the sum of its cashflows in the
\* end month (checked where Start_Value is not 0).
C19_ActualReturn ==
    out.op = "calculate_actual_pension_returns" =>
        \A p \in PensionMonths : \A q \in PensionMonths :
            (q < p /\ (\A m \in PensionMonths : ~(q < m /\ m < p)) /\ PensionValue(q) # 0) =>
                \E r \in out.res :
                    /\ r.Month = to_timestamp(p)
                    /\ r.Asset = "Wahed SIPP"
                    /\ r.Actual_Return =
                         Frac(PensionValue(p) - PensionValue(q)
                                - SumValues(SelectSeq(out.cashflows_df.rows,
                                        LAMBDA c : to_period(c.Timestamp) = p)),
                              PensionValue(q))

\* the same where the start value is positive
C19_PositiveStart ==
    out.op = "calculate_actual_pension_returns" =>
        /\ Cardinality(out.res) = IF PensionMonths = {} THEN 0
                                 ELSE Cardinality(PensionMonths) - 1
        /\ \A p \in PensionMonths : \A q \in PensionMonths :
            (q < p /\ (\A m \in PensionMonths : ~(q < m /\ m < p)) /\ PensionValue(q) > 0) =>
                \E r \in out.res :
                    /\ r.Month = to_timestamp(p)
                    /\ r.Start_Value = PensionValue(q)
                    /\ r.End_Value = PensionValue(p)
                    /\ r.Actual_Return =
                         Frac(PensionValue(p) - PensionValue(q)
                                - SumValues(SelectSeq(out.cashflows_df.rows,
                                        LAMBDA c : to_period(c.Timestamp) = p)),
                              PensionValue(q))

\* a ledger of a single (Platform, Asset) pair with one row in one month, or one row in
\* each of two consecutive months
SinglePairRows(rows) ==
    /\ Len(rows) \in {1, 2}
    /\ \A i \in DOMAIN rows : rows[i].Platform = rows[1].Platform /\ rows[i].Asset = rows[1].Asset
    /\ Len(rows) = 2 => to_period(rows[2].Timestamp) = to_period(rows[1].Timestamp) + 1

RoundTripOf(rows, RightStart(_)) ==
    /\ Len(out.monthly) = Len(rows)
    /\ \A i \in DOMAIN rows :
        /\ out.monthly[i].Value = rows[i].Value
        /\ out.monthly[i].Month = to_timestamp(to_period(rows[i].Timestamp))
    /\ Len(rows) = 1 => out.metrics.mom_change = None
    /\ (Len(rows) = 2 /\ RightStart(rows[1].Value)) =>
            out.metrics.mom_change
                = Scale(Frac(rows[2].Value - rows[1].Value, rows[1].Value), 100)

\* C20: for a single (Platform, Asset) pair with one row in each of two consecutive months,
\* values v1 then v2, classify, monthly aggregation and month-over-month change give the
\* monthly totals v1 and v2, an undefined change for the first month and the change
\* (v2 - v1) / v1 for the second (checked where v1 is not 0).
C20_RoundTrip ==
    (out.op = "round_trip" /\ SinglePairRows(out.rows)) =>
        RoundTripOf(out.rows, LAMBDA v1 : v1 # 0)

\* the same where v1 is positive
C20_PositiveStart ==
    (out.op = "round_trip" /\ SinglePairRows(out.rows)) =>
        RoundTripOf(out.rows, LAMBDA v1 : v1 > 0)

(***************************************************************************)
(* get_monthly_aggregation called directly, on any frame a caller may hand *)
(* it: None, no rows, or rows whose Value cell holds no number.            *)
(***************************************************************************)
\* a frame or None, as the df argument
NoneArg == [is_none |-> TRUE, rows |-> <<>>]

\* the Value cells of an arbitrary frame: the Values of the ledgers and the missing cell
CellValues == LedgerValues \o <<NaNValue>>

\* the row of the k-th (month, holding) with the v-th cell as its Value
CellRow(k, v) == [LedgerRow(k, 1) EXCEPT !.Value = CellValues[v]]

\* the df arguments of the model: None and the frames of up to n rows
Arguments(n) ==
    {NoneArg} \cup
    {LET rows == SelectSeq([i \in 1..n |-> <<f[i], g[i]>>], LAMBDA kv : kv[1] # 0)
     IN  [is_none |-> FALSE, rows |-> [i \in 1..Len(rows) |-> CellRow(rows[i][1], rows[i][2])]] :
        f \in {h \in [1..n -> 0..NLedgerKeys] :
                    \A i \in 1..(n - 1) : h[i] = 0 \/ h[i] < h[i + 1]},
        g \in [1..n -> 1..Len(CellValues)]}

InitAggregate ==
    /\ df \in Arguments(MaxRows)
    /\ out = NoOut
    /\ sheet = <<>>
    /\ cache = NoOut
    /\ session_state = NoOut
    /\ run = NoOut
    /\ car_file = "absent"
    /\ car_cache = NoOut

\* get_monthly_aggregation(df, group_by_cols); "if df is None or df.empty" comes first
AggregateArgument ==
    /\ out.op = "none"
    /\ \E group_by_cols \in {<<>>, <<"Asset_Type">>, <<"Platform">>} :
            out' = [op |-> "get_monthly_aggregation", group_by_cols |-> group_by_cols,
                    res |-> IF df.is_none THEN <<>>
                            ELSE get_monthly_aggregation(df.rows, group_by_cols)]
    /\ UNCHANGED <<sheet, cache, session_state, run, df, car_file, car_cache>>

NextAggregate == AggregateArgument

SpecAggregate == InitAggregate /\ [][NextAggregate]_vars

\* C11: get_monthly_aggregation returns no month rows when the ledger is None, has no
\* rows, or has only rows whose Value is missing or not numeric.
C11_EmptyOnNullInput ==
    (/\ out.op = "get_monthly_aggregation"
     /\ \/ df.is_none
        \/ \A i \in DOMAIN df.rows : df.rows[i].Value = NaNValue)
        => out.res = <<>>

(***************************************************************************)
(* The rolling and drawdown functions applied to monthly tables whose     *)
(* rows come in any order.                                                 *)
(***************************************************************************)
\* rolling(window=w, min_periods=1).mean(): the points before the w-th are filled from
\* the rows there are
rolling_mean_min_periods_1(rows, j, w) ==
    IF j < w THEN Div(SumValues(SubSeq(rows, 1, j)), j)
    ELSE Div(SumValues(SubSeq(rows, j - w + 1, j)), w)

\* Series.rolling(window=w).mean() of the Value column at position j: min_periods is w
rolling_mean(rows, j, w) ==
    IF j < w THEN NaN ELSE Div(SumValues(SubSeq(rows, j - w + 1, j)), w)

\* Series.rolling(window=w).std() of the Value column at position j, squared (ddof = 1)
rolling_std_squared(rows, j, w) ==
    IF j < w \/ w < 2 THEN NaN
    ELSE Div(w * SumSquares(SubSeq(rows, j - w + 1, j))
                - SumValues(SubSeq(rows, j - w + 1, j)) * SumValues(SubSeq(rows, j - w + 1, j)),
             w * (w - 1))

\* calculate_rolling_metrics on a table with a Month column without sort_values('Month'):
\* the rolling window runs over the rows as passed
calculate_rolling_metrics_with_Month_unsorted(table, window, timestamp_has_freq) ==
    IF table = <<>> THEN [raised |-> FALSE, rows |-> <<>>]
    ELSE IF timestamp_has_freq THEN [raised |-> TRUE, rows |-> <<>>]
    ELSE [raised |-> FALSE,
              rows |-> [j \in 1..Len(table) |->
                [Month |-> table[j].Month,
                 Value |-> table[j].Value,
                 Rolling_Avg |-> rolling_mean(table, j, window),
                 Rolling_Std_Squared |-> rolling_std_squared(table, j, window)]]]

\* calculate_rolling_metrics(df, window) of a table that has a Month column of Timestamps:
\* no groupby; the rows are sorted by Month and the rolling mean and (squared) standard
\* deviation are taken over the last window rows.  Where pandas gives a Timestamp the
\* attribute freq (before pandas 2), the conversion branch calls .dt.to_timestamp() on a
\* datetime column, which raises.
calculate_rolling_metrics_with_Month(table, window, timestamp_has_freq) ==
    IF table = <<>> THEN [raised |-> FALSE, rows |-> <<>>]
    ELSE IF timestamp_has_freq THEN [raised |-> TRUE, rows |-> <<>>]
    ELSE LET months == SortPeriods({to_period(table[i].Month) : i \in DOMAIN table})
             sorted == [j \in 1..Len(months) |->
                            CHOOSE r \in {table[i] : i \in DOMAIN table} :
                                to_period(r.Month) = months[j]]
         IN  [raised |-> FALSE,
              rows |-> [j \in 1..Len(sorted) |->
                [Month |-> sorted[j].Month,
                 Value |-> sorted[j].Value,
                 Rolling_Avg |-> rolling_mean(sorted, j, window),
                 Rolling_Std_Squared |-> rolling_std_squared(sorted, j, window)]]]

\* x + y of two float64 numbers
FracAdd(x, y) == Frac(x.n * y.d + y.n * x.d, x.d * y.d)

RECURSIVE FracSum(_)
FracSum(xs) == IF xs = <<>> THEN Num(0) ELSE FracAdd(Head(xs), FracSum(Tail(xs)))

\* Series.rolling(w).std() squared at position j (ddof = 1): NaN while the window has
\* fewer than w numbers; rolling counts inf as missing
rolling_var(xs, j, w) ==
    IF j < w \/ w < 2 THEN NaN
    ELSE LET win == SubSeq(xs, j - w + 1, j)
         IN  IF \E i \in DOMAIN win : ~IsNum(win[i]) THEN NaN
             ELSE LET s1 == FracSum(win)
                      s2 == FracSum([i \in DOMAIN win |-> Mul(win[i], win[i])])
                  IN  Frac(w * s2.n * s1.d * s1.d - s1.n * s1.n * s2.d,
                           w * (w - 1) * s2.d * s1.d * s1.d)

\* Series.rolling(w).min() at position j
rolling_min(xs, j, w) ==
    IF j < w THEN NaN
    ELSE LET win == SubSeq(xs, j - w + 1, j)
         IN  IF \E i \in DOMAIN win : ~IsNum(win[i]) THEN NaN
             ELSE CHOOSE x \in {win[i] : i \in DOMAIN win} :
                    \A i \in DOMAIN win : x.n * win[i].d <= win[i].n * x.d

\* etl calculate_rolling_metrics(df, window) of a monthly metrics frame: the window shrinks
\* to the length of the frame.  Rolling_Volatility is kept as its square over 12; the
\* Sharpe and Sortino columns are left out.
monthly_metrics_calculate_rolling_metrics(monthly_metrics, window) ==
    IF monthly_metrics = <<>> THEN [actual_window |-> 0, rows |-> <<>>]
    ELSE LET actual_window == IF window < Len(monthly_metrics) THEN window
                              ELSE Len(monthly_metrics)
             returns == [j \in DOMAIN monthly_metrics |-> monthly_metrics[j].Monthly_Return]
             drawdowns == [j \in DOMAIN monthly_metrics |-> monthly_metrics[j].Drawdown]
         IN  [actual_window |-> actual_window,
              rows |-> [j \in DOMAIN monthly_metrics |->
                [Month |-> monthly_metrics[j].Month,
                 Portfolio_Value |-> monthly_metrics[j].Portfolio_Value,
                 Rolling_Return |->
                    IF j <= actual_window THEN NaN
                    ELSE Plus(Div(monthly_metrics[j].Portfolio_Value,
                                  monthly_metrics[j - actual_window].Portfolio_Value), -1),
                 Rolling_Volatility_Squared |-> rolling_var(returns, j, actual_window),
                 Rolling_Max_Drawdown |-> rolling_min(drawdowns, j, actual_window)]]]

\* the months and Values of the monthly tables of the model
TableMonths ==
    << [y |-> 2023, m |-> 12, d |-> 1], [y |-> 2024, m |-> 1, d |-> 1],
       [y |-> 2024, m |-> 2, d |-> 1], [y |-> 2024, m |-> 3, d |-> 1] >>

TableValues == <<0, 100, 200>>

\* the tables of one account with one row in each of some months, in any row order
MonthlyTables ==
    UNION {{[i \in 1..n |->
                [Platform |-> "HSBC", Asset |-> "Savings Account",
                 Value |-> TableValues[g[i]], Timestamp |-> TableMonths[f[i]],
                 Asset_Type |-> "Cash"]] :
            f \in {h \in [1..n -> 1..Len(TableMonths)] :
                        \A i \in 1..n : \A k \in 1..n : h[i] = h[k] => i = k},
            g \in [1..n -> 1..Len(TableValues)]} : n \in 1..Len(TableMonths)}

\* the table with a Month column, the rows in the order passed
MonthColumn(frame) ==
    [i \in DOMAIN frame |->
        [Month |-> to_timestamp(to_period(frame[i].Timestamp)), Value |-> frame[i].Value]]

InitRolling ==
    /\ df \in MonthlyTables
    /\ out = NoOut
    /\ sheet = <<>>
    /\ cache = NoOut
    /\ session_state = NoOut
    /\ run = NoOut
    /\ car_file = "absent"
    /\ car_cache = NoOut

\* calculate_rolling_metrics on a table that has the Month column
RollingMetricsWithMonth ==
    /\ out.op = "none"
    /\ \E window \in 1..MaxWindow : \E timestamp_has_freq \in BOOLEAN :
            out' = [op |-> "calculate_rolling_metrics_with_Month", window |-> window,
                    res |-> calculate_rolling_metrics_with_Month(
                                MonthColumn(df), window, timestamp_has_freq)]
    /\ UNCHANGED <<sheet, cache, session_state, run, df, car_file, car_cache>>

\* etl calculate_rolling_metrics on the frame calculate_monthly_metrics returns
EtlRollingMetrics ==
    /\ out.op = "none"
    /\ \E window \in 1..MaxWindow :
            out' = [op |-> "monthly_metrics_calculate_rolling_metrics", window |-> window,
                    res |-> monthly_metrics_calculate_rolling_metrics(
                                calculate_monthly_metrics(df), window)]
    /\ UNCHANGED <<sheet, cache, session_state, run, df, car_file, car_cache>>

NextRolling ==
    \/ RollingMetrics
    \/ RollingMetricsWithMonth
    \/ EtlRollingMetrics
    \/ MonthlyMetrics

SpecRolling == InitRolling /\ [][NextRolling]_vars

SortedByMonth(frame) ==
    LET months == SortPeriods(Months(frame))
    IN  [j \in 1..Len(months) |->
            CHOOSE r \in {frame[i] : i \in DOMAIN frame} : to_period(r.Timestamp) = months[j]]

\* C22: the rolling and drawdown functions re-sort by month: for a table with distinct
\* months they give each month the values they give for the same rows in month order,
\* whatever the order of the rows passed in.
C22_RowOrderIrrelevant ==
    /\ out.op = "calculate_rolling_metrics_with_Month" =>
            \/ out.res.raised
            \/ out.res = calculate_rolling_metrics_with_Month(
                            MonthColumn(SortedByMonth(df)), out.window, FALSE)
    /\ out.op = "calculate_rolling_metrics" =>
            out.res = calculate_rolling_metrics(SortedByMonth(df), out.window)
    /\ out.op = "calculate_monthly_metrics" =>
            out.res = calculate_monthly_metrics(SortedByMonth(df))

\* three rows passed latest month first: the rolling average of window 2 at the latest
\* month is the mean of the two latest months
C22_Witness ==
    /\ out.op = "calculate_rolling_metrics_with_Month"
    /\ ~out.res.raised
    /\ out.window = 2
    /\ Len(df) = 3
    /\ to_period(df[1].Timestamp) > to_period(df[2].Timestamp)
    /\ to_period(df[2].Timestamp) > to_period(df[3].Timestamp)
    /\ df[1].Value = 200 /\ df[2].Value = 100 /\ df[3].Value = 0
    /\ out.res.rows[3].Rolling_Avg = Num(150)
    /\ out.res.rows[2].Rolling_Avg = Num(50)

(***************************************************************************)
(* Vehicle equity: car_metrics.py on the car workbook and                  *)
(* calculate_car_equity on the car assets sheet.                           *)
(***************************************************************************)
\* get_latest_valuation: the row with the latest Date, None without valuations
get_latest_valuation(car_valuations) ==
    IF car_valuations = <<>> THEN [is_none |-> TRUE]
    ELSE LET latest == CHOOSE r \in {car_valuations[i] : i \in DOMAIN car_valuations} :
                            \A i \in DOMAIN car_valuations : car_valuations[i].Date <= r.Date
         IN  [is_none |-> FALSE, Value |-> latest.Value, Date |-> latest.Date]

RECURSIVE SumAmounts(_)
\* payments_df['Amount'].sum()
SumAmounts(payments) ==
    IF payments = <<>> THEN 0 ELSE Head(payments).Amount + SumAmounts(Tail(payments))

\* the outstanding balance without the floor at 0
calculate_outstanding_finance_unclamped(finance_agreement, payments_df) ==
    IF finance_agreement.is_none THEN 0
    ELSE finance_agreement.AmountFinanced - SumAmounts(payments_df)

\* calculate_outstanding_finance: AmountFinanced - total paid, not below 0
calculate_outstanding_finance(finance_agreement, payments_df) ==
    IF finance_agreement.is_none THEN 0
    ELSE LET outstanding == finance_agreement.AmountFinanced - SumAmounts(payments_df)
         IN  IF outstanding > 0 THEN outstanding ELSE 0

\* get_all_car_metrics(data, car_id): the valuation, finance and equity entries; the cost,
\* contribution, key date and PNL entries are left out
get_all_car_metrics(data) ==
    LET car_payments == IF data.finance_agreement.is_none THEN <<>> ELSE data.payments
        latest_valuation_series == get_latest_valuation(data.valuations)
        latest_valuation == IF latest_valuation_series.is_none THEN 0
                            ELSE latest_valuation_series.Value
        outstanding_finance ==
            calculate_outstanding_finance(data.finance_agreement, car_payments)
    IN  [latest_valuation |-> latest_valuation,
         outstanding_finance |-> outstanding_finance,
         equity |-> latest_valuation - outstanding_finance]

\* calculate_equity(row) of calculate_car_equity: the Equity of one row of the car assets
\* sheet; Equity_Percentage and LTV_Ratio are left out
calculate_equity(row) ==
    IF row.Car_Value = NaNValue THEN None
    ELSE IF row.Loan_Status = "Owned" THEN Num(row.Car_Value)
    ELSE IF row.Loan_Status = "Financed"
    THEN LET loan_balance == IF row.Loan_Balance # NaNValue THEN row.Loan_Balance ELSE 0
         IN  Num(row.Car_Value - loan_balance)
    ELSE None

calculate_car_equity(car_assets_df) ==
    [i \in DOMAIN car_assets_df |->
        [Loan_Status |-> car_assets_df[i].Loan_Status,
         Car_Value |-> car_assets_df[i].Car_Value,
         Loan_Balance |-> car_assets_df[i].Loan_Balance,
         Equity |-> calculate_equity(car_assets_df[i])]]

\* the amounts of the car workbook and of the car assets sheet
CarAmounts == {0, 100, 200}

\* the finance agreement of the car, if any, its payments and its valuations (at most
\* two of each, the valuations on different dates)
CarWorkbooks ==
    LET Seqs(S) == {<<>>} \cup {<<a>> : a \in S} \cup {<<a, b>> : a \in S, b \in S}
    IN  [kind : {"workbook"},
         finance_agreement : {[is_none |-> TRUE]}
             \cup {[is_none |-> FALSE, AmountFinanced |-> a] : a \in CarAmounts},
         payments : Seqs({[Amount |-> a] : a \in CarAmounts \ {0}}),
         valuations : {v \in Seqs({[Date |-> d, Value |-> a] : d \in 1..2, a \in CarAmounts}) :
                            Len(v) = 2 => v[1].Date # v[2].Date}]

\* one row of the car assets sheet: Loan_Status as typed, Car_Value and Loan_Balance as
\* to_numeric leaves them (NaN for an empty cell)
CarAssetFrames ==
    {[kind |-> "car_assets", rows |-> <<r>>] :
        r \in [Loan_Status : {"Financed", "Owned", ""},
               Car_Value : CarAmounts \cup {NaNValue},
               Loan_Balance : CarAmounts \cup {-100, NaNValue}]}

InitCar ==
    /\ df \in CarWorkbooks \cup CarAssetFrames
    /\ out = NoOut
    /\ sheet = <<>>
    /\ cache = NoOut
    /\ session_state = NoOut
    /\ run = NoOut
    /\ car_file = "absent"
    /\ car_cache = NoOut

AllCarMetrics ==
    /\ out.op = "none"
    /\ df.kind = "workbook"
    /\ out' = [op |-> "get_all_car_metrics", res |-> get_all_car_metrics(df)]
    /\ UNCHANGED <<sheet, cache, session_state, run, df, car_file, car_cache>>

CarEquity ==
    /\ out.op = "none"
    /\ df.kind = "car_assets"
    /\ out' = [op |-> "calculate_car_equity", res |-> calculate_car_equity(df.rows)]
    /\ UNCHANGED <<sheet, cache, session_state, run, df, car_file, car_cache>>

NextCar == AllCarMetrics \/ CarEquity

SpecCar == InitCar /\ [][NextCar]_vars

\* the part of C23 that is about get_all_car_metrics
C23_CarMetrics ==
    out.op = "get_all_car_metrics" =>
        /\ out.res.outstanding_finance >= 0
        /\ ~df.finance_agreement.is_none =>
                \/ out.res.outstanding_finance
                        = df.finance_agreement.AmountFinanced - SumAmounts(df.payments)
                \/ (out.res.outstanding_finance = 0
                        /\ df.finance_agreement.AmountFinanced < SumAmounts(df.payments))
        /\ out.res.equity = out.res.latest_valuation - out.res.outstanding_finance
        /\ out.res.equity <= out.res.latest_valuation
        /\ df.finance_agreement.is_none => out.res.equity = out.res.latest_valuation
        /\ \A i \in DOMAIN df.valuations :
                (\A k \in DOMAIN df.valuations : df.valuations[k].Date <= df.valuations[i].Date)
                    => out.res.latest_valuation = df.valuations[i].Value

\* C23: vehicle equity is the latest valuation minus the outstanding loan balance, which
\* is never below 0: equity never exceeds the latest valuation and equals it when the car
\* has no finance agreement.
C23_EquityIsValueMinusBalance ==
    /\ C23_CarMetrics
    /\ out.op = "calculate_car_equity" =>
            \A i \in DOMAIN out.res :
                out.res[i].Car_Value # NaNValue =>
                    /\ out.res[i].Equity # None
                    /\ out.res[i].Equity.n <= out.res[i].Car_Value
                    /\ out.res[i].Loan_Status # "Financed" =>
                            out.res[i].Equity = Num(out.res[i].Car_Value)

(***************************************************************************)
(* Further properties of the metrics functions.                            *)
(***************************************************************************)
RECURSIVE SumCurrent(_, _)
\* the sum of the current values of the asset types S of an allocation dictionary
SumCurrent(types, S) ==
    IF S = {} THEN 0
    ELSE LET t == CHOOSE x \in S : TRUE
         IN  types[t].current + SumCurrent(types, S \ {t})

RECURSIVE SumAllocation(_, _)
\* the sum of their allocation percentages
SumAllocation(types, S) ==
    IF S = {} THEN Num(0)
    ELSE LET t == CHOOSE x \in S : TRUE
         IN  FracAdd(types[t].allocation, SumAllocation(types, S \ {t}))

\* the per-type entries of an allocation dictionary add up to its Total
AddsUp(res) ==
    /\ SumCurrent(res.types, DOMAIN res.types) = res.Total.current
    /\ res.Total.current > 0 => SumAllocation(res.types, DOMAIN res.types) = Num(100)

\* C26: in calculate_allocation_metrics, for every ledger (also with rows classified
\* Other, Property or Vehicles in the latest month) the per-type current values add up to
\* the Total current value, and when that total is positive the per-type allocation
\* percentages add up to 100.
C26_AllocationAddsUp ==
    /\ (out.op = "calculate_allocation_metrics" /\ df # <<>>) => AddsUp(out.res)
    /\ (out.op = "metrics.calculate_allocation_metrics" /\ df # <<>>) => AddsUp(out.res)

\* the part of C26 that is about metrics.py
C26_MetricsModule ==
    (out.op = "metrics.calculate_allocation_metrics" /\ df # <<>>) => AddsUp(out.res)

\* C27: for every ledger and every asset type T, the latest_value of
\* calculate_asset_type_metrics(df, T) equals the current value that
\* calculate_allocation_metrics(df) reports for T: both are the sum of T's rows in the
\* latest month of the ledger.
C27_LatestValueAgrees ==
    (out.op = "calculate_asset_type_metrics" /\ df # <<>>) =>
        /\ out.res.latest_value = SumValues(OfType(InMonth(df, LatestMonth(df)), out.asset_type))
        /\ out.asset_type \in DOMAIN calculate_allocation_metrics(df).types =>
                out.res.latest_value
                    = calculate_allocation_metrics(df).types[out.asset_type].current

\* the same for the asset types that have a row in the latest month of the ledger
C27_TypeInLatestMonth ==
    (/\ out.op = "calculate_asset_type_metrics"
     /\ df # <<>>
     /\ OfType(InMonth(df, LatestMonth(df)), out.asset_type) # <<>>
     /\ out.asset_type \in DOMAIN calculate_allocation_metrics(df).types) =>
        /\ out.res.latest_value = SumValues(OfType(InMonth(df, LatestMonth(df)), out.asset_type))
        /\ out.res.latest_value
                = calculate_allocation_metrics(df).types[out.asset_type].current

(***************************************************************************)
(* utils/etl/data_loader.py: the worksheet, its cells and load_data.       *)
(* A worksheet is the sequence of its data rows (the header row, with the  *)
(* required columns, is left out); every cell is a string, spelled out as  *)
(* a tuple of characters where the loader parses it.                       *)
(***************************************************************************)
DigitSeq == <<"0", "1", "2", "3", "4", "5", "6", "7", "8", "9">>

DigitValue(c) == (CHOOSE i \in 1..Len(DigitSeq) : DigitSeq[i] = c) - 1

RECURSIVE DigitsValue(_)
\* the number a run of digits spells
DigitsValue(s) ==
    IF s = <<>> THEN 0
    ELSE DigitsValue(SubSeq(s, 1, Len(s) - 1)) * 10 + DigitValue(s[Len(s)])

RECURSIVE lstrip(_)
lstrip(s) == IF s # <<>> /\ Head(s) = " " THEN lstrip(Tail(s)) ELSE s

RECURSIVE rstrip(_)
rstrip(s) ==
    IF s # <<>> /\ s[Len(s)] = " " THEN rstrip(SubSeq(s, 1, Len(s) - 1)) ELSE s

\* .str.replace('£', '').str.replace(',', '').str.strip()
clean_value(cell) ==
    lstrip(rstrip(SelectSeq(cell, LAMBDA c : c # "£" /\ c # ",")))

\* pd.to_numeric(errors='coerce') of a string: a whole number of pounds, signed or not;
\* NaN for the empty string and for anything else
to_numeric(s) ==
    LET body == IF s # <<>> /\ Head(s) = "-" THEN Tail(s) ELSE s
    IN  IF body # <<>> /\ \A i \in 1..Len(body) : body[i] \in Digits
        THEN Num((IF body = s THEN 1 ELSE -1) * DigitsValue(body))
        ELSE NaN

\* pd.to_datetime raises on a cell that is not a date; the dates of the model are
\* spelled dd/mm/yyyy
to_datetime_raises(cell) ==
    ~(/\ Len(cell) = 10
      /\ \A i \in 1..10 : IF i \in {3, 6} THEN cell[i] = "/" ELSE cell[i] \in Digits)

\* pd.to_datetime(dayfirst=True) of a dd/mm/yyyy cell
to_datetime(cell) ==
    [y |-> DigitsValue(SubSeq(cell, 7, 10)),
     m |-> DigitsValue(SubSeq(cell, 4, 5)),
     d |-> DigitsValue(SubSeq(cell, 1, 2))]

\* what load_data returns: None, or a frame
NoneFrame == [is_none |-> TRUE, rows |-> <<>>]

Frame(rows) == [is_none |-> FALSE, rows |-> rows]

\* the frame of cleaned rows, or None when no row is left
load_from_google_sheets(all_values) ==
    LET data_rows ==
            [i \in 1..Len(all_values) |->
                [Platform |-> all_values[i].Platform,
                 Asset |-> all_values[i].Asset,
                 Value |-> to_numeric(clean_value(all_values[i].Value)),
                 Timestamp |-> all_values[i].Timestamp,
                 Token_Amount |-> to_numeric(all_values[i].Token_Amount)]]
        df_cleaned == SelectSeq(data_rows, LAMBDA r : IsNum(r.Value))
    IN  IF all_values = <<>> THEN NoneFrame
        ELSE IF df_cleaned = <<>> THEN NoneFrame
        ELSE Frame(df_cleaned)

\* the orders sort_values('Timestamp') can leave the rows in: rows with equal Timestamps
\* in any order
sort_values_Timestamp(frame) ==
    {[i \in 1..Len(frame) |-> frame[p[i]]] :
        p \in {q \in [1..Len(frame) -> 1..Len(frame)] :
                /\ \A i, j \in 1..Len(frame) : q[i] = q[j] => i = j
                /\ \A i \in 1..(Len(frame) - 1) :
                        TsKey(frame[q[i]].Timestamp) <= TsKey(frame[q[i + 1]].Timestamp)}}

\* GroupBy.last() of one column: the last value of the group that is not null
last_not_null(group, c) ==
    LET present == SelectSeq(group, LAMBDA r : c # "Token_Amount" \/ IsNum(r[c]))
    IN  IF present = <<>> THEN NaN ELSE present[Len(present)][c]

\* groupby(['Month', 'Asset']).last().reset_index().drop(columns=['Month'])
groupby_Month_Asset_last(sorted) ==
    LET groups == SortGroups({[Month |-> to_period(sorted[i].Timestamp),
                               Key |-> <<sorted[i].Asset>>] : i \in DOMAIN sorted})
        Group(g) == SelectSeq(sorted, LAMBDA r :
                        to_period(r.Timestamp) = g.Month /\ r.Asset = g.Key[1])
    IN  [j \in 1..Len(groups) |->
            [c \in DOMAIN sorted[1] |->
                IF c = "Asset" THEN groups[j].Key[1]
                ELSE last_not_null(Group(groups[j]), c)]]

\* one entry per Asset per month: the frames the step can leave
deduplicate(frame) ==
    IF \E i, j \in DOMAIN frame :
            /\ i # j
            /\ to_period(frame[i].Timestamp) = to_period(frame[j].Timestamp)
            /\ frame[i].Asset = frame[j].Asset
    THEN {groupby_Month_Asset_last(sorted) : sorted \in sort_values_Timestamp(frame)}
    ELSE {frame}

\* the values load_data() can return for a worksheet, without the memoization
load_data(all_values) ==
    LET loaded == load_from_google_sheets(all_values)
        stamped == [i \in 1..Len(loaded.rows) |->
                        [loaded.rows[i] EXCEPT !.Timestamp = to_datetime(@),
                                               !.Value = @.n]]
        classified == classify_asset_types(stamped)
    IN  IF loaded.is_none THEN {NoneFrame}
        ELSE IF \E i \in DOMAIN loaded.rows : to_datetime_raises(loaded.rows[i].Timestamp)
        THEN {NoneFrame}    \* except Exception: st.error, return None
        ELSE {Frame(rows) : rows \in deduplicate(classified)}

\* a load_data() call as its caller sees it: the value returned, the st.error messages
\* shown, and whether an exception came out of the call.  fetch_raises: gspread raises
\* (no network, no credentials), which _load_from_google_sheets catches.
load_data_call(all_values, fetch_raises) ==
    IF fetch_raises
    THEN {[res |-> NoneFrame, raised |-> FALSE,
           errors |-> <<"Error loading data from Google Sheets", "Failed to load data">>]}
    ELSE {[res |-> res, raised |-> FALSE,
           errors |-> IF load_from_google_sheets(all_values).is_none
                      THEN <<"Failed to load data">>
                      ELSE IF res.is_none THEN <<"Error processing data">>
                      ELSE <<>>] : res \in load_data(all_values)}

\* the key of the de-duplication of utils/data_loader.py
DedupKey(r) == <<r.Platform, r.Asset, to_period(r.Timestamp)>>

\* utils/data_loader.py, pd.read_excel: the workbook's rows with their cells typed
read_excel(workbook) ==
    [i \in 1..Len(workbook) |->
        [Platform |-> workbook[i].Platform,
         Asset |-> workbook[i].Asset,
         Value |-> LET v == to_numeric(clean_value(workbook[i].Value))
                   IN  IF IsNum(v) THEN v.n ELSE NaNValue,
         Timestamp |-> workbook[i].Timestamp,
         Token_Amount |-> to_numeric(workbook[i].Token_Amount)]]

\* utils/data_loader.py, groupby(['Month', 'Platform', 'Asset']).last().reset_index()
groupby_Month_Platform_Asset_last(sorted) ==
    LET groups == SortGroups({[Month |-> to_period(sorted[i].Timestamp),
                               Key |-> <<sorted[i].Platform, sorted[i].Asset>>] :
                                    i \in DOMAIN sorted})
        Group(g) == SelectSeq(sorted, LAMBDA r :
                        /\ to_period(r.Timestamp) = g.Month
                        /\ <<r.Platform, r.Asset>> = g.Key)
        NotNull(g, c) == SelectSeq(Group(g), LAMBDA r :
                            /\ c = "Value" => r[c] # NaNValue
                            /\ c = "Token_Amount" => IsNum(r[c]))
    IN  [j \in 1..Len(groups) |->
            [c \in DOMAIN sorted[1] |->
                IF NotNull(groups[j], c) = <<>>
                THEN (IF c = "Value" THEN NaNValue ELSE NaN)
                ELSE NotNull(groups[j], c)[Len(NotNull(groups[j], c))][c]]]

\* utils/data_loader.py load_data() as its caller sees it.  read_raises: pd.read_excel
\* raises (the workbook is not there); the handler then reads df.columns of a df that
\* was never bound, and that exception leaves the function.
legacy_load_data_call(workbook, read_raises) ==
    LET df0 == read_excel(workbook)
        stamped == [i \in 1..Len(df0) |-> [df0[i] EXCEPT !.Timestamp = to_datetime(@)]]
        typed == [i \in 1..Len(df0) |->
                    [c \in DOMAIN stamped[i] \cup {"Asset_Type"} |->
                        IF c = "Asset_Type" THEN platform_asset_type(stamped[i].Platform)
                        ELSE stamped[i][c]]]
        duplicates == \E i, j \in DOMAIN typed :
                        i # j /\ DedupKey(typed[i]) = DedupKey(typed[j])
    IN  IF read_raises
        THEN {[res |-> NoneFrame, raised |-> TRUE, errors |-> <<"Error loading data">>]}
        ELSE IF \E i \in DOMAIN df0 : to_datetime_raises(df0[i].Timestamp)
        THEN {[res |-> NoneFrame, raised |-> FALSE, errors |-> <<"Error loading data">>]}
        ELSE {[res |-> Frame(rows), raised |-> FALSE, errors |-> <<>>] :
                rows \in IF duplicates
                         THEN {groupby_Month_Platform_Asset_last(sorted) :
                                    sorted \in sort_values_Timestamp(typed)}
                         ELSE {typed}}

(***************************************************************************)
(* load_data applied to a worksheet.                                       *)
(***************************************************************************)
SheetHoldings ==
    << [Platform |-> "HSBC", Asset |-> "GBP"],
       [Platform |-> "Wise", Asset |-> "GBP"],
       [Platform |-> "Coinbase", Asset |-> "BTC"] >>

SheetTimestamps ==
    << <<"0", "5", "/", "0", "1", "/", "2", "0", "2", "4">>,
       <<"2", "0", "/", "0", "1", "/", "2", "0", "2", "4">>,
       <<"2", "5", "/", "0", "1", "/", "2", "0", "2", "4">>,
       <<"1", "0", "/", "0", "2", "/", "2", "0", "2", "4">> >>

\* the Value and Token Amount cells of a row
SheetAmounts ==
    << [Value |-> <<"1", "0", "0">>, Token_Amount |-> <<>>],
       [Value |-> <<"£", "1", ",", "2", "0", "0">>, Token_Amount |-> <<"2">>],
       [Value |-> <<"n", "/", "a">>, Token_Amount |-> <<>>] >>

\* rows with a cell left empty or filled with text: no Platform; a Timestamp that is no
\* date; a Timestamp that is no date next to a Value that is no number
SheetOddRows ==
    << [Platform |-> "", Asset |-> "GBP", Value |-> <<"1", "0", "0">>,
        Timestamp |-> SheetTimestamps[1], Token_Amount |-> <<>>],
       [Platform |-> "Wise", Asset |-> "GBP", Value |-> <<"1", "0", "0">>,
        Timestamp |-> <<"n", "/", "a">>, Token_Amount |-> <<>>],
       [Platform |-> "Wise", Asset |-> "GBP", Value |-> <<"n", "/", "a">>,
        Timestamp |-> <<"n", "/", "a">>, Token_Amount |-> <<>>] >>

NSheetRows == Len(SheetHoldings) * Len(SheetTimestamps) * Len(SheetAmounts) + Len(SheetOddRows)

\* the k-th row of the model's worksheets, k in 1..NSheetRows
SheetRow(k) ==
    IF k > NSheetRows - Len(SheetOddRows) THEN SheetOddRows[k - (NSheetRows - Len(SheetOddRows))]
    ELSE
    LET h == SheetHoldings[((k - 1) \div (Len(SheetTimestamps) * Len(SheetAmounts))) + 1]
        t == SheetTimestamps[(((k - 1) \div Len(SheetAmounts)) % Len(SheetTimestamps)) + 1]
        a == SheetAmounts[((k - 1) % Len(SheetAmounts)) + 1]
    IN  [Platform |-> h.Platform, Asset |-> h.Asset, Value |-> a.Value,
         Timestamp |-> t, Token_Amount |-> a.Token_Amount]

\* worksheets of up to n data rows, each set of rows in one row order:
\* f lists the rows' numbers in non-decreasing order, 0 standing for no row
Sheets(n) ==
    {LET rows == SelectSeq(f, LAMBDA k : k # 0)
     IN  [i \in 1..Len(rows) |-> SheetRow(rows[i])] :
        f \in {g \in [1..n -> 0..NSheetRows] :
                    \A i \in 1..(n - 1) : g[i] <= g[i + 1]}}

InitLoad ==
    /\ sheet \in Sheets(MaxSheetRows)
    /\ out = NoOut
    /\ df = <<>>
    /\ cache = NoOut
    /\ session_state = NoOut
    /\ run = NoOut
    /\ car_file = "absent"
    /\ car_cache = NoOut

LoadData ==
    /\ out.op = "none"
    /\ \E fetch_raises \in BOOLEAN : \E o \in load_data_call(sheet, fetch_raises) :
            out' = [op |-> "load_data", fetch_raises |-> fetch_raises, res |-> o.res,
                    raised |-> o.raised, errors |-> o.errors]
    /\ UNCHANGED <<sheet, cache, session_state, run, df, car_file, car_cache>>

\* utils/data_loader.py load_data() over the same rows as its workbook
LegacyLoadData ==
    /\ out.op = "none"
    /\ \E read_raises \in BOOLEAN : \E o \in legacy_load_data_call(sheet, read_raises) :
            out' = [op |-> "legacy_load_data", fetch_raises |-> read_raises, res |-> o.res,
                    raised |-> o.raised, errors |-> o.errors]
    /\ UNCHANGED <<sheet, cache, session_state, run, df, car_file, car_cache>>

NextLoad == LoadData \/ LegacyLoadData

SpecLoad == InitLoad /\ [][NextLoad]_vars

\* the rows of the worksheet the loader keeps, with their Timestamps parsed
SourceRows ==
    LET loaded == load_from_google_sheets(sheet)
    IN  [i \in 1..Len(loaded.rows) |->
            [loaded.rows[i] EXCEPT !.Timestamp = to_datetime(@), !.Value = @.n]]

\* C1: after load_data's de-duplication the ledger holds at most one row per
\* (Platform, Asset, calendar month), and whenever the source had several rows for one
\* such key with different Timestamps, the row that survives for the key carries the
\* Value of the key's latest-Timestamp row.
C1_LatestTimestampWins ==
    (out.op = "load_data" /\ ~out.res.is_none) =>
        LET ledger == out.res.rows
        IN  /\ \A i, j \in DOMAIN ledger :
                    DedupKey(ledger[i]) = DedupKey(ledger[j]) => i = j
            /\ \A i, j \in DOMAIN SourceRows :
                    (/\ DedupKey(SourceRows[i]) = DedupKey(SourceRows[j])
                     /\ SourceRows[i].Timestamp # SourceRows[j].Timestamp) =>
                        \E l \in DOMAIN ledger, m \in DOMAIN SourceRows :
                            /\ DedupKey(ledger[l]) = DedupKey(SourceRows[i])
                            /\ DedupKey(SourceRows[m]) = DedupKey(SourceRows[i])
                            /\ \A n \in DOMAIN SourceRows :
                                    DedupKey(SourceRows[n]) = DedupKey(SourceRows[i]) =>
                                        TsKey(SourceRows[n].Timestamp)
                                            <= TsKey(SourceRows[m].Timestamp)
                            /\ ledger[l].Value = SourceRows[m].Value

\* C12: when duplicate rows of a key are collapsed, every field of the surviving row
\* (Platform, Asset, Value, Timestamp, Token Amount) comes from the key's single
\* latest-Timestamp row, none from an earlier duplicate.
C12_SurvivorIsLatestRow ==
    (out.op = "load_data" /\ ~out.res.is_none) =>
        LET ledger == out.res.rows
        IN  \A l \in DOMAIN ledger, m \in DOMAIN SourceRows :
                (/\ DedupKey(SourceRows[m]) = DedupKey(ledger[l])
                 /\ \E n \in DOMAIN SourceRows \ {m} :
                        DedupKey(SourceRows[n]) = DedupKey(SourceRows[m])
                 /\ \A n \in DOMAIN SourceRows \ {m} :
                        DedupKey(SourceRows[n]) = DedupKey(SourceRows[m]) =>
                            TsKey(SourceRows[n].Timestamp) < TsKey(SourceRows[m].Timestamp))
                    => \A c \in DOMAIN SourceRows[m] : ledger[l][c] = SourceRows[m][c]

\* the ledger a page can work on: rows, each with a numeric Value and an asset type
Usable(res) ==
    /\ ~res.is_none
    /\ res.rows # <<>>
    /\ \A i \in DOMAIN res.rows :
            res.rows[i].Value # NaNValue /\ res.rows[i].Asset_Type \in AssetTypeSet

\* C14: load_data never lets an exception reach its caller: on any fetch or parsing
\* failure it shows an error message and returns None, and on success it returns a usable
\* ledger.
C14_NoExceptionEscapes ==
    out.op \in {"load_data", "legacy_load_data"} =>
        /\ ~out.raised
        /\ out.fetch_raises => (out.res.is_none /\ out.errors # <<>>)
        /\ out.res.is_none => out.errors # <<>>
        /\ ~out.res.is_none => Usable(out.res)

\* the part of C14 that is about utils/etl/data_loader.py alone
C14_EtlLoader == out.op = "load_data" => C14_NoExceptionEscapes

\* a source row all of whose fields are valid
ValidRow(r) ==
    /\ IsNum(to_numeric(clean_value(r.Value)))
    /\ ~to_datetime_raises(r.Timestamp)
    /\ r.Platform # "" /\ r.Asset # ""

\* C16: a source row with an invalid field (a Value that is no number, a Timestamp that
\* is no date, a missing Platform or Asset) is dropped by the loader, and every valid row
\* of the same load is kept in the returned ledger (here: on worksheets whose valid rows
\* have no two rows of one Asset in one month, so that de-duplication drops nothing).
C16_InvalidRowsDropped ==
    (out.op = "load_data" /\ ~out.fetch_raises) =>
        LET valid == SelectSeq(sheet, ValidRow)
            kept == [i \in 1..Len(valid) |->
                        [Platform |-> valid[i].Platform, Asset |-> valid[i].Asset,
                         Timestamp |-> to_datetime(valid[i].Timestamp)]]
        IN  (\A i, j \in DOMAIN kept :
                (/\ kept[i].Asset = kept[j].Asset
                 /\ to_period(kept[i].Timestamp) = to_period(kept[j].Timestamp)) => i = j)
            => /\ out.res.is_none <=> valid = <<>>
               /\ ~out.res.is_none =>
                    kept = [i \in DOMAIN out.res.rows |->
                                [Platform |-> out.res.rows[i].Platform,
                                 Asset |-> out.res.rows[i].Asset,
                                 Timestamp |-> out.res.rows[i].Timestamp]]

\* the source row r is a row of the ledger
InLedger(r, ledger) ==
    \E l \in DOMAIN ledger :
        /\ ledger[l].Platform = r.Platform
        /\ ledger[l].Asset = r.Asset
        /\ ledger[l].Timestamp = r.Timestamp
        /\ ledger[l].Value = r.Value

\* C24: de-duplication in load_data removes a row only if another row with the same
\* Platform, the same Asset and the same calendar month exists; rows of one Asset name on
\* different Platforms in one month all survive.
C24_RemovedOnlyForSameKey ==
    (out.op = "load_data" /\ ~out.res.is_none) =>
        \A i \in DOMAIN SourceRows :
            \/ InLedger(SourceRows[i], out.res.rows)
            \/ \E j \in DOMAIN SourceRows \ {i} :
                    DedupKey(SourceRows[j]) = DedupKey(SourceRows[i])

\* the same with the key the code groups by: the Asset and the calendar month
C24_RemovedOnlyForSameAssetAndMonth ==
    (out.op = "load_data" /\ ~out.res.is_none) =>
        \A i \in DOMAIN SourceRows :
            \/ InLedger(SourceRows[i], out.res.rows)
            \/ \E j \in DOMAIN SourceRows \ {i} :
                    /\ SourceRows[j].Asset = SourceRows[i].Asset
                    /\ to_period(SourceRows[j].Timestamp) = to_period(SourceRows[i].Timestamp)

(***************************************************************************)
(* Home.py and the pages: script runs over the memoized load_data.         *)
(***************************************************************************)
\* the worksheets the user switches between: no data rows, one valid row, two rows of
\* one holding in one month, one row whose Value is not a number
AppSheets ==
    { <<>>, <<SheetRow(1)>>, <<SheetRow(1), SheetRow(5)>>, <<SheetRow(3)>> }

\* a loader without @st.cache_data: every call reads the source
uncached_load_data(fetched) == fetched

\* a populate_with_test_data that writes the sample sheets and leaves the memos alone
populate_with_test_data_no_clear(file, memo) == [file |-> "populated", memo |-> memo]

\* populate_with_test_data(file_path): the sample sheets overwrite the workbook, then
\* st.cache_data.clear() empties the memo of every @st.cache_data function
populate_with_test_data(file, memo) ==
    [file |-> "populated", memo |-> [k \in DOMAIN memo |-> NoOut]]

\* @st.cache_data: the stored value when there is one, else the value just fetched
cached_load_data(fetched) == IF cache.op = "none" THEN fetched ELSE cache.res

\* st.session_state after lines 153-162 of a run in which load_data() returned raw_data
data_status_after(raw_data) ==
    IF session_state.data_status = "absent"
    THEN IF ~raw_data.is_none /\ raw_data.rows # <<>> THEN "success" ELSE "fail"
    ELSE session_state.data_status

\* one run of Home.py down to the sidebar status, load_data() returning raw_data
HomeScript(raw_data, op) ==
    /\ cache' = [op |-> "load_data", res |-> raw_data]
    /\ df' = raw_data
    /\ out' = [op |-> "Home",
               sidebar |-> IF data_status_after(raw_data) = "success"
                           THEN "success" ELSE "error"]
    /\ run' = [op |-> op, fetched |-> cache.op = "none", source |-> sheet]

(***************************************************************************)
(* pages/6_Cars.py over the memoized load_car_data.                        *)
(***************************************************************************)
\* the workbook: not there, the blank template (every sheet without rows), with rows,
\* or not readable as the data model (a sheet or a column missing)
CarFiles == {"absent", "template", "populated", "invalid"}

\* a new blank template is written when there is no file
check_and_generate_car_data_file(file) == IF file = "absent" THEN "template" ELSE file

\* load_car_data(file_path) without the memoization: None, "empty" or the dict of sheets
load_car_data(file) ==
    CASE file = "absent" -> "None"
      [] file = "invalid" -> "None"
      [] file = "template" -> "empty"
      [] file = "populated" -> "data"

\* @st.cache_data: the stored value when there is one, else the value just read
cached_load_car_data(read) == IF car_cache.op = "none" THEN read ELSE car_cache.res

Init ==
    /\ sheet \in AppSheets
    /\ cache = NoOut
    /\ session_state = [force_reload |-> FALSE, data_status |-> "absent"]
    /\ run = NoOut
    /\ df = NoneFrame
    /\ out = NoOut
    /\ car_file \in CarFiles
    /\ car_cache = NoOut

\* the user opens Home, or Streamlit reruns it for another widget
OpenHome ==
    /\ run.op # "reload_clicked"
    /\ \E fetched \in load_data(sheet) :
            /\ HomeScript(cached_load_data(fetched), "home")
            /\ session_state' = [force_reload |-> FALSE,
                                 data_status |-> data_status_after(cached_load_data(fetched))]
    /\ UNCHANGED <<sheet, car_file, car_cache>>

\* the user presses "Reload Data": the run reaches the button, which sets the two keys
\* and calls st.rerun()
ClickReload ==
    /\ out.op = "Home"
    /\ run.op # "reload_clicked"
    /\ \E fetched \in load_data(sheet) :
            HomeScript(cached_load_data(fetched), "reload_clicked")
    /\ session_state' = [force_reload |-> TRUE, data_status |-> "None"]
    /\ UNCHANGED <<sheet, car_file, car_cache>>

\* the run st.rerun() starts
Rerun ==
    /\ run.op = "reload_clicked"
    /\ \E fetched \in load_data(sheet) :
            /\ HomeScript(cached_load_data(fetched), "rerun")
            /\ session_state' = [force_reload |-> FALSE,
                                 data_status |-> data_status_after(cached_load_data(fetched))]
    /\ UNCHANGED <<sheet, car_file, car_cache>>

\* the user opens one of the pages: df = load_data()
OpenPage ==
    /\ run.op # "reload_clicked"
    /\ \E fetched \in load_data(sheet) :
            /\ cache' = [op |-> "load_data", res |-> cached_load_data(fetched)]
            /\ df' = cached_load_data(fetched)
    /\ out' = [op |-> "page"]
    /\ run' = [op |-> "page", fetched |-> cache.op = "none", source |-> sheet]
    /\ UNCHANGED <<sheet, session_state, car_file, car_cache>>

\* the user edits the Google Sheets document
EditSheet ==
    /\ sheet' \in AppSheets \ {sheet}
    /\ UNCHANGED <<cache, session_state, run, df, out, car_file, car_cache>>

\* the user opens the Cars page: lines 14-15 and the branch on car_data
OpenCars ==
    /\ run.op # "reload_clicked"
    /\ LET file == check_and_generate_car_data_file(car_file)
           car_data == cached_load_car_data(load_car_data(file))
       IN  /\ car_file' = file
           /\ car_cache' = [op |-> "load_car_data", res |-> car_data]
           /\ out' = [op |-> "Cars", car_data |-> car_data,
                      fetched |-> car_cache.op = "none", source |-> file,
                      rerun_of_populate |-> out.op = "populate_clicked"]
    /\ UNCHANGED <<sheet, cache, session_state, run, df>>

\* the user presses "Populate with Sample Data": the run gets car_data = "empty" again
\* and reaches the button, populate_with_test_data writes the sample rows and calls
\* st.cache_data.clear(), which empties every memo, and st.rerun() follows
ClickPopulate ==
    /\ run.op # "reload_clicked"
    /\ out.op = "Cars" /\ out.car_data = "empty"
    /\ cached_load_car_data(load_car_data(check_and_generate_car_data_file(car_file))) = "empty"
    /\ LET done == populate_with_test_data(car_file, <<car_cache, cache>>)
       IN  /\ car_file' = done.file
           /\ car_cache' = done.memo[1]
           /\ cache' = done.memo[2]
    /\ out' = [op |-> "populate_clicked"]
    /\ UNCHANGED <<sheet, session_state, run, df>>

\* the user edits, replaces or deletes the workbook
EditCarFile ==
    /\ car_file' \in CarFiles \ {car_file}
    /\ UNCHANGED <<sheet, cache, session_state, run, df, out, car_cache>>

Next ==
    \/ OpenHome
    \/ ClickReload
    \/ Rerun
    \/ OpenPage
    \/ EditSheet
    \/ OpenCars
    \/ ClickPopulate
    \/ EditCarFile

Spec == Init /\ [][Next]_vars

\* C3: pressing "Reload Data" clears the memoized load_data result, so the load_data call
\* of the following rerun fetches the worksheet afresh and the page sees that fresh result.
C3_ReloadFetchesFresh ==
    /\ run.op = "reload_clicked" => cache.op = "none"
    /\ run.op = "rerun" => (run.fetched /\ df \in load_data(run.source))

\* the script runs that call load_data() write run and df
CallsLoadData == run' # run \/ df' # df

\* C15: between two cache clears, every call of a memoized loader (load_data,
\* load_car_data) returns the result of the first call, data or failure result alike,
\* without reading the source again, even when the source has changed in the meantime.
C15_MemoizedUntilCleared ==
    [][/\ cache.op # "none" =>
            /\ cache' = cache \/ cache' = NoOut
            /\ CallsLoadData => (df' = cache.res /\ ~run'.fetched)
       /\ car_cache.op # "none" =>
            /\ car_cache' = car_cache \/ car_cache' = NoOut
            /\ (out'.op = "Cars" /\ out' # out) =>
                    (out'.car_data = car_cache.res /\ ~out'.fetched)]_vars

\* C15 witness: a page run gets the memoized None although the worksheet now has a row
\* that loads, and a Cars run has got the memoized None although the workbook now has rows
C15_Witness ==
    /\ run.op = "page" /\ ~run.fetched
    /\ df.is_none
    /\ \A res \in load_data(run.source) : ~res.is_none
    /\ out.op = "Cars" /\ ~out.fetched
    /\ out.car_data = "None" /\ out.source = "populated"

\* C25: after "Reload Data" the rerun recomputes the sidebar connection status from its
\* own load: success exactly when load_data returned a ledger with rows, failure otherwise.
C25_StatusOfRerunLoad ==
    run.op = "rerun" =>
        /\ out.op = "Home"
        /\ out.sidebar = "success" <=> (~df.is_none /\ df.rows # <<>>)


\* C30: populate_with_test_data clears the memo after writing the sample sheets, so the
\* load_car_data call of the rerun that follows reads the workbook (the populated one
\* unless it was replaced meanwhile) and returns the dict of sheets, not the memoized "empty".
C30_PopulateClearsMemo ==
    /\ out.op = "populate_clicked" => (car_cache = NoOut /\ cache = NoOut)
    /\ (out.op = "Cars" /\ out.rerun_of_populate) =>
            /\ out.fetched
            /\ out.car_data = load_car_data(out.source)
            /\ out.source = "populated" => out.car_data = "data"

\* C30 witness: the rerun after the button has read the populated workbook and got the dict
C30_Witness ==
    /\ out.op = "Cars" /\ out.rerun_of_populate
    /\ out.fetched
    /\ out.source = "populated" /\ out.car_data = "data"
    /\ car_cache = [op |-> "load_car_data", res |-> "data"]

====
